---- MODULE Spec2Model ----
(***************************************************************************)
(* Model of the concurrency and scheduling engine of cica:                 *)
(*   - UserTaskManager (src/channels/mod.rs): per-user debounce and abort  *)
(*   - CronService / CronStore / CronSchedule (src/cron): the scheduler    *)
(* The components share no state; each has its own specifications over the *)
(* module's variables: TaskSpec and TaskFairSpec (task manager), CronSpec  *)
(* (scheduler, commands, shutdown), StoreSpec (a CronStore instance and    *)
(* cron.json), QuerySpec (the lookups on any stored job table), NotifySpec *)
(* (delivery of results), RunSpec (the /cron run command), RaceSpec (a     *)
(* pause or resume command beside the scheduler), AddSpec (the /cron add   *)
(* command on texts), ParseSpec (parse_add_command), SchedSpec             *)
(* (next_run_after, description and parse), ClockSpec (FakeClock),         *)
(* RestartFairSpec (the scheduler over a restart of the process), LockSpec *)
(* (the three mutexes and the awaits around them), LostSpec and OwnerSpec  *)
(* (a store that starts with a job of another owner).                      *)
(***************************************************************************)
EXTENDS Integers, Sequences, FiniteSets, TLC

\* ------------------------------------------------------------------ bounds
MaxMsgs == 3
MaxInflight == 1
MaxJobs == 1
MaxExecs == 2
MaxTime == 2
TimeBits == 28
CronPeriod == 2
MaxClocks == 3
MaxCount == 3
AtTime == 2
Interval == 1

Users == {"u1", "u2"}
MsgIds == 1..MaxMsgs
TaskIds == 1..MaxMsgs

None == <<>>
Some(x) == <<x>>

VARIABLES
  pending,    \* UserTaskManager.pending: user key -> queued messages
  tasks,      \* UserTaskManager.tasks: user key -> handle of the active task
  task,       \* the spawned debounce tasks: id -> position and local state
  calls,      \* process_message calls that pushed and wait for the tasks lock
  sent,       \* number of messages passed to process_message so far
  arrived,    \* history: per user, the messages in arrival order
  late,       \* history: a message was pushed after a debounce sleep of the user ended
  postDrain   \* history: messages pushed after a task of the user had drained

tmvars == <<pending, tasks, task, calls, sent, arrived, late, postDrain>>

VARIABLES
  disk,       \* cron.json: the persisted snapshot, job id -> job
  mem,        \* CronService.store: the scheduler's in-memory CronStore
  now,        \* the clock, in time units
  tickpc,     \* position of the tick loop inside one iteration
  execs,      \* execute_job calls: position and local state of each
  created,    \* number of jobs created so far (job ids are fresh)
  stop,       \* shutdown: "no", "sent" (stop() returned), "exited" (run returned)
  cmd         \* the /cron command between its load and its save, with its store

cronvars == <<disk, mem, now, tickpc, execs, created, stop, cmd>>

VARIABLES
  st,         \* a CronStore instance: job id -> job
  file,       \* cron.json as the file system holds it
  call,       \* the add or remove call in progress on st, and its save
  ret,        \* what the last finished operation returned
  addres      \* history: job id -> outcome of the add that created it

storevars == <<st, file, call, ret, addres>>

VARIABLES
  fclock      \* FakeClock: the shared counters and the clones that point at them

clockvars == <<fclock>>

VARIABLES
  lk          \* the three mutexes and the position of each task around them

lockvars == <<lk>>

vars == <<tmvars, cronvars, storevars, clockvars, lockvars>>

\* ------------------------------------------------------- UserTaskManager
NoTask == [user |-> "", pc |-> "none", cancel |-> FALSE, woke |-> FALSE,
           batch |-> <<>>, finished |-> FALSE]

Running == {"drain", "handler", "cleanup"}

TasksOf(u) == {t \in TaskIds : task[t].pc # "none" /\ task[t].user = u}

FreshTask == CHOOSE t \in TaskIds : task[t].pc = "none" /\
                 \A s \in TaskIds : task[s].pc = "none" => t <= s

Woken(u) == \E t \in TasksOf(u) : task[t].woke

Drained(u) == \E t \in TasksOf(u) :
                 task[t].pc \in {"handler", "cleanup", "done"} \/ task[t].batch # <<>>

SeqSet(s) == {s[i] : i \in 1..Len(s)}

InitTM ==
  /\ pending = [u \in Users |-> <<>>]
  /\ tasks = [u \in Users |-> None]
  /\ task = [t \in TaskIds |-> NoTask]
  /\ calls = [u \in Users |-> 0]
  /\ sent = 0
  /\ arrived = [u \in Users |-> <<>>]
  /\ late = [u \in Users |-> FALSE]
  /\ postDrain = {}

\* Mutant of PushMsg: the entry is overwritten instead of appended to.
PushMsg_Overwrite(q, m) == <<m>>

\* Mutant of PushMsg: the message is put at the front of the queue.
PushMsg_Prepend(q, m) == <<m>> \o q

\* pending.entry(user_key).or_insert_with(Vec::new).push(message)
PushMsg(q, m) == Append(q, m)

\* process_message, first critical section: the message joins the queue.
Push(u) ==
  /\ sent < MaxMsgs
  /\ calls[u] < MaxInflight
  /\ sent' = sent + 1
  /\ pending' = [pending EXCEPT ![u] = PushMsg(@, sent + 1)]
  /\ calls' = [calls EXCEPT ![u] = @ + 1]
  /\ arrived' = [arrived EXCEPT ![u] = Append(@, sent + 1)]
  /\ late' = [late EXCEPT ![u] = @ \/ Woken(u)]
  /\ postDrain' = IF Drained(u) THEN postDrain \cup {sent + 1} ELSE postDrain
  /\ UNCHANGED <<tasks, task, cronvars, storevars, clockvars, lockvars>>

\* JoinHandle::abort: a task suspended in its sleep is dropped at once; a task
\* that is being polled only has its cancel flag set and goes on to its next
\* await that suspends; a task that has ended is not affected.
AbortTask(r) ==
  IF r.pc = "sleep" THEN [r EXCEPT !.pc = "aborted", !.cancel = TRUE]
  ELSE IF r.pc \in Running THEN [r EXCEPT !.cancel = TRUE]
  ELSE r

\* Mutant of AbortSet: every task in the map is aborted, whatever its key.
AbortSet_AnyKey(u) == {tasks[v][1] : v \in {w \in Users : tasks[w] # None}}

\* The tasks the second critical section aborts: the entry of the same key.
AbortSet(u) == IF tasks[u] = None THEN {} ELSE {tasks[u][1]}

\* Mutant of SpawnStep: a call that finds a task in the map leaves the message
\* to that task and spawns nothing.
SpawnStep_NoRespawn(u) ==
  /\ calls[u] > 0
  /\ IF tasks[u] # None
       THEN UNCHANGED <<task, tasks>>
       ELSE /\ task' = [task EXCEPT ![FreshTask] = [NoTask EXCEPT !.user = u, !.pc = "sleep"]]
            /\ tasks' = [tasks EXCEPT ![u] = Some(FreshTask)]
  /\ calls' = [calls EXCEPT ![u] = @ - 1]
  /\ UNCHANGED <<pending, sent, arrived, late, postDrain, cronvars, storevars, clockvars, lockvars>>

\* process_message, second critical section (under the tasks lock): abort the
\* task in the map, spawn a new one, put its handle in the map.
SpawnStep(u) ==
  /\ calls[u] > 0
  /\ LET n == FreshTask
     IN /\ task' = [t \in TaskIds |->
                      IF t = n THEN [NoTask EXCEPT !.user = u, !.pc = "sleep"]
                      ELSE IF t \in AbortSet(u) THEN AbortTask(task[t])
                      ELSE task[t]]
        /\ tasks' = [tasks EXCEPT ![u] = Some(n)]
  /\ calls' = [calls EXCEPT ![u] = @ - 1]
  /\ UNCHANGED <<pending, sent, arrived, late, postDrain, cronvars, storevars, clockvars, lockvars>>

\* tokio::time::sleep(DEBOUNCE_MS) elapses.
Wake(t) ==
  /\ task[t].pc = "sleep"
  /\ task' = [task EXCEPT ![t].pc = "drain", ![t].woke = TRUE]
  /\ UNCHANGED <<pending, tasks, calls, sent, arrived, late, postDrain, cronvars, storevars, clockvars, lockvars>>

\* pending.remove(&user_key).unwrap_or_default(): what the task takes, and
\* what it leaves in the queue.
Taken(q) == q

\* Mutant of Left: the queue is read (get) and not removed.
Left_Keep(q) == q

Left(q) == <<>>

\* The task takes the queue; an empty batch ends the task (its map entry
\* stays), a non-empty one is passed to the handler.
Drain(t) ==
  /\ task[t].pc = "drain"
  /\ LET u == task[t].user
         b == Taken(pending[u])
     IN /\ pending' = [pending EXCEPT ![u] = Left(@)]
        /\ task' = [task EXCEPT ![t].batch = b,
                                ![t].pc = IF b = <<>> THEN "done" ELSE "handler"]
  /\ UNCHANGED <<tasks, calls, sent, arrived, late, postDrain, cronvars, storevars, clockvars, lockvars>>

\* handler(messages).await returns.
HandlerFinish(t) ==
  /\ task[t].pc = "handler"
  /\ task' = [task EXCEPT ![t].pc = "cleanup", ![t].finished = TRUE]
  /\ UNCHANGED <<pending, tasks, calls, sent, arrived, late, postDrain, cronvars, storevars, clockvars, lockvars>>

\* manager.tasks.lock().await.remove(&user_key): removal is by key.
Cleanup(t) ==
  /\ task[t].pc = "cleanup"
  /\ tasks' = [tasks EXCEPT ![task[t].user] = None]
  /\ task' = [task EXCEPT ![t].pc = "done"]
  /\ UNCHANGED <<pending, calls, sent, arrived, late, postDrain, cronvars, storevars, clockvars, lockvars>>

\* An aborted task reaches an await that suspends (a contended lock, an await
\* inside the handler) and is dropped there.
Kill(t) ==
  /\ task[t].cancel
  /\ task[t].pc \in Running
  /\ task' = [task EXCEPT ![t].pc = "aborted"]
  /\ UNCHANGED <<pending, tasks, calls, sent, arrived, late, postDrain, cronvars, storevars, clockvars, lockvars>>

NextTM ==
  \/ \E u \in Users : Push(u)
  \/ \E u \in Users : SpawnStep(u)
  \/ \E t \in TaskIds : Wake(t)
  \/ \E t \in TaskIds : Drain(t)
  \/ \E t \in TaskIds : HandlerFinish(t)
  \/ \E t \in TaskIds : Cleanup(t)
  \/ \E t \in TaskIds : Kill(t)

\* ------------------------------------------------------------ CronSchedule
At(ts) == [kind |-> "At", v |-> ts]
Every(n) == [kind |-> "Every", v |-> n]
\* A cron expression is kept as the period of its occurrences, which fall on
\* the multiples of the period.
Cron(p) == [kind |-> "Cron", v |-> p]

\* The schedules the add command is given.
Schedules == {At(AtTime), Every(Interval), Cron(CronPeriod)}

\* Timestamps and durations are u64 values; the model's words have TimeBits
\* bits, enough for the intervals used.
Modulus == 2 ^ TimeBits

\* The times drawn as inputs: the first and the last values of the word.
Times == (0..MaxTime) \cup ((Modulus - 1 - MaxTime)..(Modulus - 1))

\* calculate_next_cron: the first occurrence after `after`, None when the
\* search finds none.
CalculateNextCron(p, after) ==
  IF ((after \div p) + 1) * p < Modulus THEN Some(((after \div p) + 1) * p) ELSE None

\* The At arm answers Some(ts) at the timestamp itself.
AtArm_Inclusive(ts, after) == IF ts >= after THEN Some(ts) ELSE None

\* CronSchedule::next_run_after, the At arm.
AtArm(ts, after) == IF ts > after THEN Some(ts) ELSE None

\* CronSchedule::next_run_after.  The Every arm is a u64 addition: a sum that
\* does not fit wraps around in a build without overflow checks (and panics
\* in a build with them, see NextRunOutcomes).
NextRunAfter(s, after) ==
  CASE s.kind = "At" -> AtArm(s.v, after)
    [] s.kind = "Every" -> Some((after + s.v) % Modulus)
    [] s.kind = "Cron" -> CalculateNextCron(s.v, after)

\* What a call of next_run_after can produce in the builds of the program: its
\* value, or for an Every sum that does not fit also a panic.
NextRunOutcomes(s, after) ==
  IF s.kind = "Every" /\ after + s.v >= Modulus
    THEN {[panic |-> TRUE, val |-> None], [panic |-> FALSE, val |-> NextRunAfter(s, after)]}
    ELSE {[panic |-> FALSE, val |-> NextRunAfter(s, after)]}

\* ----------------------------------------------------------------- CronJob
JobIds == 1..MaxJobs
ExecIds == 1..MaxExecs

\* CronJob::update_next_run
UpdateNextRun(job, t) == [job EXCEPT !.next = NextRunAfter(job.sched, t)]

\* CronJob::new: notify and enabled set, Pending, next_run_at from the
\* creation time.
NewJob(s, o, t) ==
  UpdateNextRun([sched |-> s, owner |-> o, notify |-> TRUE, enabled |-> TRUE,
                 next |-> None, status |-> "Pending", last_run |-> None,
                 dur |-> None, fails |-> 0], t)

\* is_due without the enabled flag.
IsDue_IgnoreEnabled(job, t) == job.next # None /\ job.next[1] <= t

\* CronJob::is_due
IsDue(job, t) == job.enabled /\ job.next # None /\ job.next[1] <= t

\* CronStore::get_due_jobs
DueJobs(store, t) == {j \in DOMAIN store : IsDue(store[j], t)}

\* CronStore::get: the job, to its owner only.
Owned(store, j, o) == j \in DOMAIN store /\ store[j].owner = o

\* execute_job, first critical section: what it writes to the stored job.
MarkRunning(job) == [job EXCEPT !.status = "Running", !.next = None]

\* Every completed execution disables its job.
DisablesOneShot_Always(job, ok) == TRUE

\* execute_job: a one-shot At job whose execution succeeded is disabled.
DisablesOneShot(job, ok) == job.sched.kind = "At" /\ ok

\* The completion update with next_run_at computed from the start time.
Complete_FromStart(job, start, end, ok) ==
  UpdateNextRun(
    [job EXCEPT !.last_run = Some(end),
                !.dur = Some(end - start),
                !.status = IF ok THEN "Success" ELSE "Failed",
                !.fails = IF ok THEN 0 ELSE @ + 1], start)

\* execute_job, second critical section: what it writes to the stored job.
Complete(job, start, end, ok) ==
  LET upd == UpdateNextRun(
               [job EXCEPT !.last_run = Some(end),
                           !.dur = Some(end - start),
                           !.status = IF ok THEN "Success" ELSE "Failed",
                           !.fails = IF ok THEN 0 ELSE @ + 1], end)
  IN IF DisablesOneShot(job, ok)
       THEN [upd EXCEPT !.enabled = FALSE, !.next = None]
       ELSE upd

NoExec == [pc |-> "none", job |-> 0, origin |-> "", start |-> 0, ok |-> FALSE,
           rerun |-> FALSE, owner |-> "", notify |-> FALSE,
           attempts |-> 0, to |-> "", dres |-> "none"]

EmptyStore == [j \in {} |-> 0]

Put(store, j, job) == [k \in DOMAIN store \cup {j} |-> IF k = j THEN job ELSE store[k]]

Del(store, j) == [k \in DOMAIN store \ {j} |-> store[k]]

\* The process runs until run() has returned (cmd/run.rs 80-86).
Alive == stop # "exited"

NoCmd == [op |-> "none"]

InitCron ==
  /\ stop = "no"
  /\ cmd = NoCmd
  /\ disk = EmptyStore
  /\ mem = EmptyStore
  /\ now = 0
  /\ tickpc = "sleep"
  /\ execs = [e \in ExecIds |-> NoExec]
  /\ created = 0

\* ------------------------------------------------ CronStore and cron.json
\* Job ids as generate_job_id makes them: strings of one length. Two of them
\* share their first character.
StoreIds == {<<1, 1>>, <<1, 2>>, <<2, 1>>}

\* What a caller types for an id: an id or the start of one (the commands
\* answer an empty id with their usage text and do not look it up).
Prefixes == {<<1>>, <<2>>, <<1, 1>>, <<1, 2>>, <<2, 1>>, <<2, 2>>}

\* serde_json of an Option<u64>: null or a number.
OptJson(o) == IF o = None THEN [null |-> TRUE, num |-> 0]
                          ELSE [null |-> FALSE, num |-> o[1]]

\* A reader that takes null for the number 0.
JsonOpt_NullAsZero(v) == Some(v.num)

JsonOpt(v) == IF v.null THEN None ELSE Some(v.num)

\* serde_json of a JobStatus (tag = "status", content = "error").
StatusJson(x) == IF x = "Failed" THEN [status |-> x, error |-> "e"]
                                 ELSE [status |-> x]

JsonStatus(v) == v.status

\* serde_json of a CronJob.
ToJson(job) ==
  [schedule |-> [type |-> job.sched.kind, value |-> job.sched.v],
   user_id |-> job.owner,
   notify |-> job.notify,
   enabled |-> job.enabled,
   state |-> [next_run_at |-> OptJson(job.next),
              last_run_at |-> OptJson(job.last_run),
              last_status |-> StatusJson(job.status),
              last_duration_ms |-> OptJson(job.dur),
              failure_count |-> job.fails]]

FromJson(v) ==
  [sched |-> [kind |-> v.schedule.type, v |-> v.schedule.value],
   owner |-> v.user_id,
   notify |-> v.notify,
   enabled |-> v.enabled,
   next |-> JsonOpt(v.state.next_run_at),
   status |-> JsonStatus(v.state.last_status),
   last_run |-> JsonOpt(v.state.last_run_at),
   dur |-> JsonOpt(v.state.last_duration_ms),
   fails |-> v.state.failure_count]

\* cron.json: not there, holding a whole job table, or cut short (opened for
\* writing and truncated, the new text not or only partly written).
NoFile == [kind |-> "absent"]
TornFile == [kind |-> "torn"]
FileOf(store) == [kind |-> "json", jobs |-> [j \in DOMAIN store |-> ToJson(store[j])]]

\* CronStore::load: the default store when the file does not exist, a parse
\* error on text that is not a whole JSON document.
StoreLoad(f) ==
  IF f.kind = "absent" THEN [ok |-> TRUE, store |-> EmptyStore]
  ELSE IF f.kind = "torn" THEN [ok |-> FALSE, store |-> EmptyStore]
  ELSE [ok |-> TRUE, store |-> [j \in DOMAIN f.jobs |-> FromJson(f.jobs[j])]]

\* CronStore::get with the ownership filter left out.
StoreGet_NoFilter(store, id, o) ==
  IF id \in DOMAIN store THEN Some(store[id]) ELSE None

\* CronStore::get
StoreGet(store, id, o) ==
  IF Owned(store, id, o) THEN Some(store[id]) ELSE None

\* CronStore::list_for_user
ListForUser(store, o) == {j \in DOMAIN store : store[j].owner = o}

\* str::starts_with
StartsWith(id, p) == Len(p) <= Len(id) /\ SubSeq(id, 1, Len(p)) = p

\* find_job_id taking the first match among all jobs.
FindJobId_AnyMatch(store, o, p) ==
  LET m == {j \in DOMAIN store : StartsWith(j, p)}
  IN IF m = {} THEN [ok |-> FALSE, id |-> <<>>, why |-> "not found"]
     ELSE [ok |-> TRUE, id |-> CHOOSE j \in m : TRUE, why |-> ""]

\* find_job_id: the exact id of a job of the caller, or else the one job of
\* the caller the text is a prefix of.
FindJobId(store, o, p) ==
  IF StoreGet(store, p, o) # None
    THEN [ok |-> TRUE, id |-> p, why |-> ""]
    ELSE LET m == {j \in ListForUser(store, o) : StartsWith(j, p)}
         IN IF Cardinality(m) = 1
              THEN [ok |-> TRUE, id |-> CHOOSE j \in m : TRUE, why |-> ""]
              ELSE [ok |-> FALSE, id |-> <<>>,
                    why |-> IF m = {} THEN "not found" ELSE "ambiguous"]

NoCall == [op |-> "none"]
NoRet == [op |-> "none"]

\* A store constructed where no cron.json exists.
InitStore ==
  /\ st = EmptyStore
  /\ file = NoFile
  /\ call = NoCall
  /\ ret = NoRet
  /\ addres = EmptyStore

\* ---------------------------------------------------------------- FakeClock
\* fclock.cells are the shared counters (one Arc<AtomicU64> per call of new),
\* fclock.hs the FakeClock values: the counter each points to, and the value
\* made by new that it was cloned from, directly or through clones.
Handles(c) == 1..Len(c.hs)

\* No FakeClock has been made.
InitClock == fclock = [cells |-> <<>>, hs |-> <<>>]

\* FakeClock::new
New(c, t) ==
  [cells |-> Append(c.cells, t),
   hs |-> Append(c.hs, [cell |-> Len(c.cells) + 1, root |-> Len(c.hs) + 1])]

\* The clone gets a counter of its own, holding the value at the time.
Clone_DeepCopy(c, h) ==
  [cells |-> Append(c.cells, c.cells[c.hs[h].cell]),
   hs |-> Append(c.hs, [cell |-> Len(c.cells) + 1, root |-> c.hs[h].root])]

\* #[derive(Clone)] on FakeClock: the Arc is cloned, the counter is shared.
Clone(c, h) ==
  [cells |-> c.cells,
   hs |-> Append(c.hs, [cell |-> c.hs[h].cell, root |-> c.hs[h].root])]

\* FakeClock::now_millis: load
NowMillis(c, h) == c.cells[c.hs[h].cell]

\* FakeClock::advance_ms: fetch_add, which wraps around.
AdvanceMs(c, h, d) ==
  [c EXCEPT !.cells[c.hs[h].cell] = (@ + d) % Modulus]

\* FakeClock::set: store
Set(c, h, t) == [c EXCEPT !.cells[c.hs[h].cell] = t]

\* ------------------------------------------------------------ the mutexes
\* lk.store, lk.pending and lk.tasks name the holder of CronService.store,
\* UserTaskManager.pending and UserTaskManager.tasks; the other fields are the
\* positions of the tick loop, of one caller of process_message, of the
\* execute_job tasks and of the debounce tasks of one user key, and the task
\* whose handle the tasks map holds.
Free == <<"free", 0>>
TickP == <<"tick", 0>>
CallP == <<"call", 0>>
ExecP(e) == <<"exec", e>>
TaskP(t) == <<"task", t>>

LockTasks == 1..(MaxInflight + 1)

InitLock ==
  lk = [store |-> Free, pending |-> Free, tasks |-> Free,
        tick |-> "sleep", call |-> "idle",
        exec |-> [e \in ExecIds |-> "idle"],
        task |-> [t \in LockTasks |-> [pc |-> "idle", cancel |-> FALSE]],
        entry |-> 0]

\* The guard taken for the Running mark lives to the end of execute_job.
ReleasedAfter_AtReturn(cs) ==
  CASE cs \in {"upd_cs", "reload_cs", "select_cs"} -> {"store"}
    [] cs \in {"push_cs", "drain_cs"} -> {"pending"}
    [] cs \in {"tasks_cs", "cleanup_cs"} -> {"tasks"}
    [] OTHER -> {}

\* The locks whose guard goes out of scope at the end of a critical section:
\* the blocks of execute_job and of the tick loop, the block and the
\* function end of process_message, the block and the temporary of the
\* spawned task.
ReleasedAfter(cs) ==
  CASE cs \in {"mark_cs", "upd_cs", "reload_cs", "select_cs"} -> {"store"}
    [] cs \in {"push_cs", "drain_cs"} -> {"pending"}
    [] cs \in {"tasks_cs", "cleanup_cs"} -> {"tasks"}
    [] OTHER -> {}

Release(k, cs) ==
  [k EXCEPT !.store = IF "store" \in ReleasedAfter(cs) THEN Free ELSE @,
            !.pending = IF "pending" \in ReleasedAfter(cs) THEN Free ELSE @,
            !.tasks = IF "tasks" \in ReleasedAfter(cs) THEN Free ELSE @]

\* The awaits of external work: the backend call and the result delivery of
\* execute_job, the debounce sleep and the handler of a spawned task.
ExecAwaits == {"backend", "deliver"}
TaskAwaits == {"sleep", "handler"}

\* JoinHandle::abort on a debounce task: a task suspended at an await is
\* dropped there; a task inside a critical section is being polled and only
\* gets the cancel flag.
LockAbort(r) ==
  IF r.pc \in {"sleep", "drain_lock", "handler", "cleanup_lock"}
    THEN [pc |-> "idle", cancel |-> FALSE]
  ELSE IF r.pc \in {"drain_cs", "cleanup_cs"} THEN [r EXCEPT !.cancel = TRUE]
  ELSE r

Init == InitTM /\ InitCron /\ InitStore /\ InitClock /\ InitLock

FreeExecs == {e \in ExecIds : execs[e].pc = "none"}

InFlight(e) == execs[e].pc \in {"mark", "run"}

HasCompleted(j) == \E e \in ExecIds : execs[e].pc = "done" /\ execs[e].job = j

\* The k-th smallest element of a set of numbers.
RECURSIVE Nth(_, _)
Nth(S, k) ==
  LET m == CHOOSE x \in S : \A y \in S : x <= y
  IN IF k = 1 THEN m ELSE Nth(S \ {m}, k - 1)

\* execute_job is entered for each job of `js` with a clone of the job as the
\* store holds it (owner and notify are read from the clone; the stored job
\* is looked up by id later).
Started(js, origin) ==
  [e \in ExecIds |->
     IF e \in FreeExecs /\ Cardinality({f \in FreeExecs : f <= e}) <= Cardinality(js)
       THEN LET j == Nth(js, Cardinality({f \in FreeExecs : f <= e}))
            IN [NoExec EXCEPT !.pc = "mark", !.job = j, !.origin = origin,
                              !.rerun = HasCompleted(j),
                              !.owner = mem[j].owner, !.notify = mem[j].notify]
       ELSE execs[e]]

\* Time passes.
Advance ==
  /\ now < MaxTime
  /\ now' = now + 1
  /\ UNCHANGED <<disk, mem, tickpc, execs, created, stop, cmd, tmvars, storevars, clockvars, lockvars>>

\* /cron add: load, CronJob::new, CronStore::add (insert and save).
CmdAdd(s, o) ==
  /\ Alive
  /\ created < MaxJobs
  /\ created' = created + 1
  /\ disk' = Put(disk, created + 1, NewJob(s, o, now))
  /\ UNCHANGED <<mem, now, tickpc, execs, stop, cmd, tmvars, storevars, clockvars, lockvars>>

\* /cron remove: load, find_job_id, CronStore::remove (remove and save).
CmdRemove(j, o) ==
  /\ Alive
  /\ Owned(disk, j, o)
  /\ disk' = Del(disk, j)
  /\ UNCHANGED <<mem, now, tickpc, execs, created, stop, cmd, tmvars, storevars, clockvars, lockvars>>

\* /cron pause: load, find_job_id, disable and clear next_run_at, save.
CmdPause(j, o) ==
  /\ Alive
  /\ Owned(disk, j, o)
  /\ disk' = Put(disk, j, [disk[j] EXCEPT !.enabled = FALSE, !.next = None])
  /\ UNCHANGED <<mem, now, tickpc, execs, created, stop, cmd, tmvars, storevars, clockvars, lockvars>>

\* /cron resume: load, find_job_id, enable and update_next_run(now), save.
CmdResume(j, o) ==
  /\ Alive
  /\ Owned(disk, j, o)
  /\ disk' = Put(disk, j, UpdateNextRun([disk[j] EXCEPT !.enabled = TRUE], now))
  /\ UNCHANGED <<mem, now, tickpc, execs, created, stop, cmd, tmvars, storevars, clockvars, lockvars>>

\* CronService::toggle: on the in-memory store, then save.
Toggle(j, o) ==
  /\ Alive
  /\ Owned(mem, j, o)
  /\ LET job == mem[j]
         new == IF job.enabled
                  THEN [job EXCEPT !.enabled = FALSE, !.next = None]
                  ELSE UpdateNextRun([job EXCEPT !.enabled = TRUE], now)
     IN /\ mem' = Put(mem, j, new)
        /\ disk' = mem'
  /\ UNCHANGED <<now, tickpc, execs, created, stop, cmd, tmvars, storevars, clockvars, lockvars>>

\* CronService::run_now: the caller's job is cloned out of the in-memory
\* store and execute_job is entered.
RunNow(j, o) ==
  /\ Alive
  /\ Owned(mem, j, o)
  /\ FreeExecs # {}
  /\ execs' = Started({j}, "run_now")
  /\ UNCHANGED <<disk, mem, now, tickpc, created, stop, cmd, tmvars, storevars, clockvars, lockvars>>

\* Tick, first critical section: the store is reloaded from disk.
TickReload ==
  /\ tickpc = "sleep"
  /\ mem' = disk
  /\ tickpc' = "loaded"
  /\ UNCHANGED <<disk, now, execs, created, stop, cmd, tmvars, storevars, clockvars, lockvars>>

\* Tick, second critical section and the spawn loop: the due jobs are cloned
\* and one execute_job task is spawned for each.
TickSelect ==
  /\ tickpc = "loaded"
  /\ LET due == DueJobs(mem, now)
     IN /\ Cardinality(due) <= Cardinality(FreeExecs)
        /\ execs' = Started(due, "tick")
  /\ tickpc' = "sleep"
  /\ UNCHANGED <<disk, mem, now, created, stop, cmd, tmvars, storevars, clockvars, lockvars>>

\* execute_job up to the backend call: start_time, mark the stored job (when
\* the store has it), save the whole store.
ExecMark(e) ==
  /\ execs[e].pc = "mark"
  /\ LET j == execs[e].job
     IN mem' = IF j \in DOMAIN mem THEN Put(mem, j, MarkRunning(mem[j])) ELSE mem
  /\ disk' = mem'
  /\ execs' = [execs EXCEPT ![e].pc = "run", ![e].start = now]
  /\ UNCHANGED <<now, tickpc, created, stop, cmd, tmvars, storevars, clockvars, lockvars>>

\* The result is sent whatever the clone's notify flag says.
Attempts_Always(x) == 1

\* execute_job, after the completion update: one call of result_sender when
\* the clone's notify flag is set.
Attempts(x) == IF x.notify THEN 1 ELSE 0

\* execute_job after the backend call returned ok or an error: end_time,
\* update the stored job (when the store has it), save the whole store, and
\* call result_sender for the owner named in the clone when notify is set.
ExecFinish(e, ok) ==
  /\ execs[e].pc = "run"
  /\ LET j == execs[e].job
     IN mem' = IF j \in DOMAIN mem
                 THEN Put(mem, j, Complete(mem[j], execs[e].start, now, ok))
                 ELSE mem
  /\ disk' = mem'
  /\ execs' = [execs EXCEPT ![e].pc = "done", ![e].ok = ok, ![e].start = 0,
                            ![e].attempts = Attempts(execs[e]),
                            ![e].to = IF Attempts(execs[e]) > 0 THEN execs[e].owner ELSE "",
                            ![e].dres = IF Attempts(execs[e]) > 0 THEN "pending" ELSE "none"]
  /\ UNCHANGED <<now, tickpc, created, stop, cmd, tmvars, storevars, clockvars, lockvars>>

\* The await of result_sender returns Ok or an error; an error is logged.
Delivered(e, ok) ==
  /\ Alive
  /\ execs[e].pc = "done"
  /\ execs[e].dres = "pending"
  /\ execs' = [execs EXCEPT ![e].dres = IF ok THEN "ok" ELSE "failed"]
  /\ UNCHANGED <<disk, mem, now, tickpc, created, stop, cmd, tmvars, storevars, clockvars, lockvars>>

\* cron.json is written outside the commands (the agent edits the file): the
\* notify flag of a job, which no command sets, is cleared.
EditNotify(j) ==
  /\ Alive
  /\ j \in DOMAIN disk
  /\ disk[j].notify
  /\ disk' = Put(disk, j, [disk[j] EXCEPT !.notify = FALSE])
  /\ UNCHANGED <<mem, now, tickpc, execs, created, stop, cmd, tmvars, storevars, clockvars, lockvars>>

\* /cron run: the command loads cron.json and resolves the id among the
\* caller's jobs; the channel handler then enters execute_cron_job, which
\* loads the file again, gets the caller's job and awaits the backend.
CmdRun(j, o) ==
  /\ Alive
  /\ Owned(disk, j, o)
  /\ FreeExecs # {}
  /\ LET e == CHOOSE f \in FreeExecs : \A g \in FreeExecs : f <= g
     IN execs' = [execs EXCEPT ![e] = [NoExec EXCEPT !.pc = "cmdrun", !.job = j,
                                                     !.origin = "cmd", !.owner = o,
                                                     !.start = now]]
  /\ UNCHANGED <<disk, mem, now, tickpc, created, stop, cmd, tmvars, storevars, clockvars, lockvars>>

\* execute_cron_job returns the backend's answer or its error, and the channel
\* handler sends it to the caller; no store is read or written.
CmdRunFinish(e, ok) ==
  /\ Alive
  /\ execs[e].pc = "cmdrun"
  /\ execs' = [execs EXCEPT ![e].pc = "cmddone", ![e].ok = ok, ![e].start = 0,
                            ![e].attempts = 1, ![e].to = execs[e].owner]
  /\ UNCHANGED <<disk, mem, now, tickpc, created, stop, cmd, tmvars, storevars, clockvars, lockvars>>

\* CronService::stop: the sender is taken and the message is put in the
\* channel (capacity 1, empty), which does not wait for the loop.
Stop ==
  /\ stop = "no"
  /\ stop' = "sent"
  /\ UNCHANGED <<disk, mem, now, tickpc, execs, created, cmd, tmvars, storevars, clockvars, lockvars>>

\* The tick loop, at its select, receives the shutdown message and breaks.
TickExit ==
  /\ stop = "sent"
  /\ tickpc = "sleep"
  /\ tickpc' = "exited"
  /\ UNCHANGED <<disk, mem, now, execs, created, stop, cmd, tmvars, storevars, clockvars, lockvars>>

\* run() returns once stop() has returned and main returns with it: the
\* runtime is dropped, and every spawned task that has not finished (the tick
\* loop, each execute_job between its spawn and its completion update) is
\* dropped at the await it is suspended in.
ProcessExit ==
  /\ stop = "sent"
  /\ stop' = "exited"
  /\ tickpc' = "exited"
  /\ execs' = [e \in ExecIds |->
                 IF InFlight(e) \/ execs[e].pc = "cmdrun"
                   THEN [execs[e] EXCEPT !.pc = "cancelled"]
                                ELSE execs[e]]
  /\ UNCHANGED <<disk, mem, now, created, cmd, tmvars, storevars, clockvars, lockvars>>

NextCron ==
  \/ Advance
  \/ Stop
  \/ TickExit
  \/ ProcessExit
  \/ \E s \in Schedules, o \in Users : CmdAdd(s, o)
  \/ \E j \in JobIds, o \in Users : CmdRemove(j, o)
  \/ \E j \in JobIds, o \in Users : CmdPause(j, o)
  \/ \E j \in JobIds, o \in Users : CmdResume(j, o)
  \/ \E j \in JobIds, o \in Users : Toggle(j, o)
  \/ \E j \in JobIds, o \in Users : RunNow(j, o)
  \/ TickReload
  \/ TickSelect
  \/ \E e \in ExecIds : ExecMark(e)
  \/ \E e \in ExecIds, ok \in BOOLEAN : ExecFinish(e, ok)

CronSpec == Init /\ [][NextCron]_vars

\* Executions by the tick loop and by run_now together with the delivery of
\* their results, while jobs are added, removed and edited in the file.
NextNotify ==
  \/ Advance
  \/ \E s \in Schedules, o \in Users : CmdAdd(s, o)
  \/ \E j \in JobIds, o \in Users : CmdRemove(j, o)
  \/ \E j \in JobIds : EditNotify(j)
  \/ TickReload
  \/ TickSelect
  \/ \E j \in JobIds, o \in Users : RunNow(j, o)
  \/ \E e \in ExecIds : ExecMark(e)
  \/ \E e \in ExecIds, ok \in BOOLEAN : ExecFinish(e, ok)
  \/ \E e \in ExecIds, ok \in BOOLEAN : Delivered(e, ok)

NotifySpec == Init /\ [][NextNotify]_vars

\* /cron pause and /cron resume, up to the save: the command loads its own
\* copy of cron.json, resolves the caller's job and changes it in the copy.
CmdLoad(op, j, o) ==
  /\ Alive
  /\ cmd = NoCmd
  /\ Owned(disk, j, o)
  /\ cmd' = [op |-> op, by |-> o,
             snap |-> Put(disk, j,
                          IF op = "pause"
                            THEN [disk[j] EXCEPT !.enabled = FALSE, !.next = None]
                            ELSE UpdateNextRun([disk[j] EXCEPT !.enabled = TRUE], now))]
  /\ UNCHANGED <<disk, mem, now, tickpc, execs, created, stop, tmvars, storevars, clockvars, lockvars>>

\* The save of the command: its copy of the store replaces the file.
CmdCommit ==
  /\ Alive
  /\ cmd # NoCmd
  /\ disk' = cmd.snap
  /\ cmd' = NoCmd
  /\ UNCHANGED <<mem, now, tickpc, execs, created, stop, tmvars, storevars, clockvars, lockvars>>

\* The tick loop and its executions running on the worker threads while a
\* pause or resume command runs on another.
NextRace ==
  \/ Advance
  \/ \E s \in Schedules, o \in Users : CmdAdd(s, o)
  \/ \E op \in {"pause", "resume"}, j \in JobIds, o \in Users : CmdLoad(op, j, o)
  \/ CmdCommit
  \/ TickReload
  \/ TickSelect
  \/ \E e \in ExecIds : ExecMark(e)
  \/ \E e \in ExecIds, ok \in BOOLEAN : ExecFinish(e, ok)

RaceSpec == Init /\ [][NextRace]_vars

\* A job that is in cron.json when the process starts: CronService::new
\* loads it into the in-memory store. It belongs to u2 and recurs.
PreJob == MaxJobs + 1

AllJobs == JobIds \cup {PreJob}

InitCronLoaded ==
  /\ stop = "no"
  /\ cmd = NoCmd
  /\ disk = Put(EmptyStore, PreJob, NewJob(Every(Interval), "u2", 0))
  /\ mem = disk
  /\ now = 0
  /\ tickpc = "sleep"
  /\ execs = [e \in ExecIds |-> NoExec]
  /\ created = 0

InitLoaded == InitTM /\ InitCronLoaded /\ InitStore /\ InitClock /\ InitLock

\* The tick loop and its executions while jobs are added and removed through
\* the command path, on a store that starts with the job of u2.
NextLost ==
  \/ Advance
  \/ \E s \in Schedules, o \in Users : CmdAdd(s, o)
  \/ \E j \in AllJobs, o \in Users : CmdRemove(j, o)
  \/ TickReload
  \/ TickSelect
  \/ \E e \in ExecIds : ExecMark(e)
  \/ \E e \in ExecIds, ok \in BOOLEAN : ExecFinish(e, ok)

LostSpec == InitLoaded /\ [][NextLost]_vars

\* Two owners: the commands of both and toggle, with the reload of the tick
\* loop, on a store that starts with the job of u2.
NextOwners ==
  \/ Advance
  \/ \E s \in Schedules, o \in Users : CmdAdd(s, o)
  \/ \E j \in AllJobs, o \in Users : CmdRemove(j, o)
  \/ \E op \in {"pause", "resume"}, j \in AllJobs, o \in Users : CmdLoad(op, j, o)
  \/ CmdCommit
  \/ \E j \in AllJobs, o \in Users : Toggle(j, o)
  \/ TickReload
  \/ TickSelect

OwnerSpec == InitLoaded /\ [][NextOwners]_vars

\* ------------------------------------------------- durations and schedules
\* The multipliers of parse_duration and format_duration.
SecondMs == 1000
MinuteMs == 60000
HourMs == 3600000
DayMs == 86400000

\* A text is the sequence of its parts between single spaces (an empty part
\* stands between two adjacent spaces).  A part is a word, or digits followed
\* by letters.
Tok(w) == [w |-> w]
NumTok(n, u) == [n |-> n, u |-> u]

\* The unit is the largest unit the duration reaches, whether or not it
\* divides the duration.
FormatDuration_Truncating(ms) ==
  CASE ms >= DayMs -> <<Tok("every"), NumTok(ms \div DayMs, "d")>>
    [] ms < DayMs /\ ms >= HourMs -> <<Tok("every"), NumTok(ms \div HourMs, "h")>>
    [] ms < HourMs /\ ms >= MinuteMs -> <<Tok("every"), NumTok(ms \div MinuteMs, "m")>>
    [] ms < MinuteMs /\ ms >= SecondMs -> <<Tok("every"), NumTok(ms \div SecondMs, "s")>>
    [] OTHER -> <<Tok("every"), NumTok(ms, "ms")>>

\* format_duration: the text "every {num}{unit}".
FormatDuration(ms) ==
  IF ms >= DayMs /\ ms % DayMs = 0
    THEN <<Tok("every"), NumTok(ms \div DayMs, "d")>>
  ELSE IF ms >= HourMs /\ ms % HourMs = 0
    THEN <<Tok("every"), NumTok(ms \div HourMs, "h")>>
  ELSE IF ms >= MinuteMs /\ ms % MinuteMs = 0
    THEN <<Tok("every"), NumTok(ms \div MinuteMs, "m")>>
  ELSE IF ms >= SecondMs /\ ms % SecondMs = 0
    THEN <<Tok("every"), NumTok(ms \div SecondMs, "s")>>
  ELSE <<Tok("every"), NumTok(ms, "ms")>>

\* CronSchedule::description, the Every arm.
Description(s) == FormatDuration(s.v)

Err(why) == [ok |-> FALSE, why |-> why]
Ok(v) == [ok |-> TRUE, val |-> v]

\* str::trim: the spaces at both ends are dropped.
Trim(toks) ==
  LET full == {i \in 1..Len(toks) : toks[i] # Tok("")}
  IN IF full = {} THEN <<>>
     ELSE SubSeq(toks, CHOOSE i \in full : \A k \in full : i <= k,
                       CHOOSE i \in full : \A k \in full : i >= k)

\* starts_with("<word> ")
StartsWithWord(toks, word) == Len(toks) >= 2 /\ toks[1] = Tok(word)

\* parse_duration with the digits and the unit already told apart.  The
\* product is a u64 multiplication; the counts used keep it inside the word.
ParseDuration(num, unit) ==
  CASE unit \in {"s", "sec", "secs", "second", "seconds"} -> Ok(num * SecondMs)
    [] unit \in {"m", "min", "mins", "minute", "minutes"} -> Ok(num * MinuteMs)
    [] unit \in {"h", "hr", "hrs", "hour", "hours"} -> Ok(num * HourMs)
    [] unit \in {"d", "day", "days"} -> Ok(num * DayMs)
    [] OTHER -> Err("Invalid unit")

\* parse_duration on a trimmed text: no text, no leading digit, or the digits
\* and what follows them as the unit.
ParseDurationText(toks) ==
  IF toks = <<>> THEN Err("Empty duration string")
  ELSE IF "n" \notin DOMAIN toks[1] THEN Err("Invalid duration")
  ELSE IF Len(toks) = 1 THEN ParseDuration(toks[1].n, toks[1].u)
  ELSE IF Len(toks) = 2 /\ toks[1].u = "" /\ "w" \in DOMAIN toks[2]
    THEN ParseDuration(toks[1].n, toks[2].w)
  ELSE Err("Invalid unit")

\* parse_datetime: the texts chrono reads in one of the four formats, here a
\* date and a time, or both joined by T; their timestamp is AtTime.
ParseDatetime(toks) ==
  IF toks \in {<<Tok("2024-01-28"), Tok("14:00")>>, <<Tok("2024-01-28T14:00")>>}
    THEN Ok(AtTime)
    ELSE Err("Invalid datetime")

\* validate_cron_expression: the texts croner reads as a cron expression, here
\* "0 9 * * *" and "*/5 * * * *".
ValidCron ==
  {<<NumTok(0, ""), NumTok(9, ""), Tok("*"), Tok("*"), Tok("*")>>,
   <<Tok("*/5"), Tok("*"), Tok("*"), Tok("*"), Tok("*")>>}

\* CronSchedule::parse
ParseSchedule(toks) ==
  LET input == Trim(toks)
  IN IF StartsWithWord(input, "at")
       THEN LET r == ParseDatetime(Trim(Tail(input)))
            IN IF r.ok THEN Ok(At(r.val)) ELSE r
     ELSE IF StartsWithWord(input, "every")
       THEN LET r == ParseDurationText(Trim(Tail(input)))
            IN IF r.ok THEN Ok(Every(r.val)) ELSE r
     ELSE IF input \in ValidCron THEN Ok(Cron(CronPeriod))
     ELSE Err("Invalid cron expression")

\* The prompt is the n-th part alone.
SplitN_NoLimit(toks, n) ==
  IF Len(toks) < n
    THEN [parts |-> Len(toks), head |-> toks, rest |-> <<>>]
    ELSE [parts |-> n, head |-> SubSeq(toks, 1, n - 1), rest |-> <<toks[n]>>]

\* str::splitn(n, ' '): at most n parts, the last one holding the rest of the
\* text with its spaces.
SplitN(toks, n) ==
  IF Len(toks) < n
    THEN [parts |-> Len(toks), head |-> toks, rest |-> <<>>]
    ELSE [parts |-> n, head |-> SubSeq(toks, 1, n - 1), rest |-> SubSeq(toks, n, Len(toks))]

\* The schedule text of n - 1 parts and the prompt, or the error.
SplitAndParse(input, n, usage) ==
  IF SplitN(input, n).parts < n THEN Err(usage)
  ELSE IF ParseSchedule(SplitN(input, n).head).ok
    THEN Ok([schedule |-> ParseSchedule(SplitN(input, n).head).val,
             prompt |-> SplitN(input, n).rest])
  ELSE ParseSchedule(SplitN(input, n).head)

\* parse_add_command
ParseAddCommand(raw) ==
  LET input == Trim(raw)
  IN IF input = <<>> THEN Err("Usage: /cron add <schedule> <prompt>")
     ELSE IF StartsWithWord(input, "every")
       THEN SplitAndParse(input, 3, "Usage: /cron add every <interval> <prompt>")
     ELSE IF StartsWithWord(input, "at")
       THEN SplitAndParse(input, 4, "Usage: /cron add at <date> <time> <prompt>")
     ELSE IF SplitN(input, 6).parts >= 6 /\ ParseSchedule(SplitN(input, 6).head).ok
       THEN SplitAndParse(input, 6, "")
     ELSE Err("Could not parse schedule")

\* The schedule texts, good and bad, and the prompts the add command is given,
\* and the spaces around them.
ScheduleTexts ==
  {<<>>,
   <<Tok("every")>>,
   <<Tok("every"), NumTok(1, "h")>>,
   <<Tok("every"), NumTok(10, "s")>>,
   <<Tok("every"), NumTok(10, "x")>>,
   <<Tok("every"), NumTok(5, "")>>,
   <<Tok("every"), Tok("soon")>>,
   <<Tok("every"), Tok(""), NumTok(1, "h")>>,
   <<Tok("Every"), NumTok(1, "h")>>,
   <<Tok("at")>>,
   <<Tok("at"), Tok("2024-01-28")>>,
   <<Tok("at"), Tok("2024-01-28"), Tok("14:00")>>,
   <<Tok("at"), Tok("2024-01-28T14:00")>>,
   <<Tok("at"), Tok("tomorrow"), Tok("noon")>>,
   <<NumTok(0, ""), NumTok(9, ""), Tok("*"), Tok("*"), Tok("*")>>,
   <<NumTok(0, ""), NumTok(9, ""), Tok("*"), Tok("*")>>,
   <<NumTok(61, ""), NumTok(9, ""), Tok("*"), Tok("*"), Tok("*")>>,
   <<Tok("*/5"), Tok("*"), Tok("*"), Tok("*"), Tok("*")>>,
   <<Tok("hello")>>}

Prompts ==
  {<<>>,
   <<Tok("hi")>>,
   <<Tok("check"), Tok("my"), Tok("mail")>>,
   <<Tok("say"), Tok(""), Tok("hi")>>,
   <<Tok(""), Tok("hi")>>,
   <<Tok("every"), NumTok(1, "h")>>}

Pads == {<<>>, <<Tok("")>>}

ParseInputs ==
  {l \o sch \o p \o r : l \in Pads, sch \in ScheduleTexts, p \in Prompts, r \in Pads}

\* The texts given to /cron add.
AddTexts ==
  {<<>>,
   <<Tok("every"), NumTok(1, "h"), Tok("hi")>>,
   <<Tok("every"), NumTok(0, "s"), Tok("hi")>>,
   <<Tok("at"), Tok("2024-01-28"), Tok("14:00"), Tok("hi")>>,
   <<NumTok(0, ""), NumTok(9, ""), Tok("*"), Tok("*"), Tok("*"), Tok("hi")>>,
   <<Tok("every"), NumTok(10, "x"), Tok("hi")>>,
   <<Tok("every"), NumTok(1, "h")>>,
   <<Tok("at"), Tok("tomorrow"), Tok("noon"), Tok("hi")>>,
   <<NumTok(61, ""), NumTok(9, ""), Tok("*"), Tok("*"), Tok("*"), Tok("hi")>>,
   <<Tok("hello"), Tok("there")>>}

\* The intervals rendered and parsed back: whole numbers of each unit, and
\* intervals that are no whole number of some or of any unit.
Durations ==
  {k * u : k \in 1..MaxCount, u \in {SecondMs, MinuteMs, HourMs, DayMs}}
    \cup {0, 1, 999, 1500, 90000, 5400000, 129600000}

\* The schedules and reference times next_run_after is applied to.
TimeSchedules ==
  {At(ts) : ts \in Times} \cup {Every(n) : n \in Times}
    \cup {Cron(p) : p \in 1..CronPeriod}

\* next_run_after(t), and next_run_after applied again to its result.
SnNextRun(s, t) ==
  /\ \E o \in NextRunOutcomes(s, t) :
       \E o2 \in (IF o.panic \/ o.val = None THEN {o} ELSE NextRunOutcomes(s, o.val[1])) :
         ret' = [op |-> "next_run_after", sched |-> s, after |-> t, out |-> o, again |-> o2]
  /\ UNCHANGED <<fclock, st, file, call, addres, tmvars, cronvars, lockvars>>

\* description() of an Every schedule, and parse() of the text.
SnRoundTrip(ms) ==
  /\ ret' = [op |-> "roundtrip", ms |-> ms, text |-> Description(Every(ms)),
             back |-> ParseSchedule(Description(Every(ms)))]
  /\ UNCHANGED <<fclock, st, file, call, addres, tmvars, cronvars, lockvars>>

NextSched ==
  \/ \E s \in TimeSchedules, t \in Times : SnNextRun(s, t)
  \/ \E ms \in Durations : SnRoundTrip(ms)

SchedSpec == Init /\ [][NextSched]_vars

\* parse_add_command on a text.
PaParse(raw) ==
  /\ ret' = [op |-> "parse_add_command", input |-> raw, res |-> ParseAddCommand(raw)]
  /\ UNCHANGED <<fclock, st, file, call, addres, tmvars, cronvars, lockvars>>

NextParse == \E raw \in ParseInputs : PaParse(raw)

ParseSpec == Init /\ [][NextParse]_vars

\* A text that does not parse is added with an interval of one hour.
AddedJobs_Fallback(r, o, t) ==
  IF r.ok THEN <<NewJob(r.val.schedule, o, t)>> ELSE <<NewJob(Every(HourMs), o, t)>>

\* /cron add: the job made from the parsed text, none when parse_add_command
\* returned an error (the command returns before it loads the store).
AddedJobs(r, o, t) ==
  IF r.ok THEN <<NewJob(r.val.schedule, o, t)>> ELSE <<>>

\* /cron add <text>: the usage text for no text; the error of
\* parse_add_command; otherwise load, CronJob::new, CronStore::add (insert and
\* save) and the answer.
CmdAddText(raw, o) ==
  /\ Alive
  /\ IF raw = <<>>
       THEN /\ ret' = [op |-> "add", res |-> "Usage"]
            /\ UNCHANGED <<disk, created>>
     ELSE IF AddedJobs(ParseAddCommand(raw), o, now) = <<>>
       THEN /\ ret' = [op |-> "add", res |-> "Error"]
            /\ UNCHANGED <<disk, created>>
     ELSE /\ created < MaxJobs
          /\ created' = created + 1
          /\ disk' = Put(disk, created + 1, AddedJobs(ParseAddCommand(raw), o, now)[1])
          /\ ret' = [op |-> "add", res |-> "Added"]
  /\ UNCHANGED <<mem, now, tickpc, execs, stop, cmd, fclock, st, file, call, addres, tmvars, lockvars>>

\* The add command given texts while the tick loop runs.
NextAdd ==
  \/ Advance
  \/ \E raw \in AddTexts, o \in Users : CmdAddText(raw, o)
  \/ \E j \in JobIds, o \in Users : CmdRemove(j, o)
  \/ TickReload
  \/ TickSelect
  \/ \E e \in ExecIds : ExecMark(e)
  \/ \E e \in ExecIds, ok \in BOOLEAN : ExecFinish(e, ok)

AddSpec == Init /\ [][NextAdd]_vars

\* ---------------------------------------------------- FakeClock operations
FcNew(t) ==
  /\ Len(fclock.hs) < MaxClocks
  /\ fclock' = New(fclock, t)
  /\ ret' = [op |-> "new", h |-> Len(fclock.hs) + 1, val |-> t]
  /\ UNCHANGED <<st, file, call, addres, tmvars, cronvars, lockvars>>

FcClone(h) ==
  /\ Len(fclock.hs) < MaxClocks
  /\ fclock' = Clone(fclock, h)
  /\ ret' = [op |-> "clone", h |-> Len(fclock.hs) + 1, val |-> NowMillis(fclock', Len(fclock.hs) + 1)]
  /\ UNCHANGED <<st, file, call, addres, tmvars, cronvars, lockvars>>

FcAdvance(h, d) ==
  /\ NowMillis(AdvanceMs(fclock, h, d), h) \in Times
  /\ fclock' = AdvanceMs(fclock, h, d)
  /\ ret' = [op |-> "advance_ms", h |-> h, val |-> d]
  /\ UNCHANGED <<st, file, call, addres, tmvars, cronvars, lockvars>>

FcSet(h, t) ==
  /\ fclock' = Set(fclock, h, t)
  /\ ret' = [op |-> "set", h |-> h, val |-> t]
  /\ UNCHANGED <<st, file, call, addres, tmvars, cronvars, lockvars>>

FcNow(h) ==
  /\ ret' = [op |-> "now_millis", h |-> h, val |-> NowMillis(fclock, h)]
  /\ UNCHANGED <<fclock, st, file, call, addres, tmvars, cronvars, lockvars>>

\* Clock::sleep on a FakeClock: the future yields once and returns.
FcSleep(h) ==
  /\ ret' = [op |-> "sleep", h |-> h, val |-> NowMillis(fclock, h)]
  /\ UNCHANGED <<fclock, st, file, call, addres, tmvars, cronvars, lockvars>>

NextClock ==
  \/ \E t \in Times : FcNew(t)
  \/ \E h \in Handles(fclock) : FcClone(h)
  \/ \E h \in Handles(fclock), d \in Times : FcAdvance(h, d)
  \/ \E h \in Handles(fclock), t \in Times : FcSet(h, t)
  \/ \E h \in Handles(fclock) : FcNow(h)
  \/ \E h \in Handles(fclock) : FcSleep(h)

ClockSpec == Init /\ [][NextClock]_vars

\* The program is started again: CronService::new loads cron.json into a new
\* store and start spawns a new tick loop.  Executions the old process
\* dropped stay dropped.
Restart ==
  /\ stop = "exited"
  /\ stop' = "no"
  /\ mem' = disk
  /\ tickpc' = "sleep"
  /\ UNCHANGED <<disk, now, execs, created, cmd, tmvars, storevars, clockvars, lockvars>>

\* The scheduler on its own, stopped and started again.
NextRestart ==
  \/ Advance
  \/ \E s \in Schedules, o \in Users : CmdAdd(s, o)
  \/ TickReload
  \/ TickSelect
  \/ \E e \in ExecIds : ExecMark(e)
  \/ \E e \in ExecIds, ok \in BOOLEAN : ExecFinish(e, ok)
  \/ Stop
  \/ TickExit
  \/ ProcessExit
  \/ Restart

\* A step of the tick loop, of a spawned execution, or the restart.
SchedulerStep ==
  \/ TickReload
  \/ TickSelect
  \/ \E e \in ExecIds : ExecMark(e)
  \/ \E e \in ExecIds, ok \in BOOLEAN : ExecFinish(e, ok)
  \/ Restart

\* The tick loop keeps ticking, spawned executions keep running, and a
\* stopped program is started again.
RestartFairSpec == Init /\ [][NextRestart]_vars /\ WF_vars(SchedulerStep)

\* ------------------------------------------------------ steps at the locks
\* clock.sleep(tick_interval) returns.
LkTickWake ==
  /\ lk.tick = "sleep"
  /\ lk' = [lk EXCEPT !.tick = "reload_lock"]
  /\ UNCHANGED <<tmvars, cronvars, storevars, clockvars>>

\* store.lock().await of the tick loop, for the reload and for the selection.
LkTickAcquire ==
  /\ lk.tick \in {"reload_lock", "select_lock"}
  /\ lk.store = Free
  /\ lk' = [lk EXCEPT !.store = TickP,
                      !.tick = IF lk.tick = "reload_lock" THEN "reload_cs" ELSE "select_cs"]
  /\ UNCHANGED <<tmvars, cronvars, storevars, clockvars>>

\* The reload block ends.
LkTickReload ==
  /\ lk.tick = "reload_cs"
  /\ lk' = [Release(lk, "reload_cs") EXCEPT !.tick = "select_lock"]
  /\ UNCHANGED <<tmvars, cronvars, storevars, clockvars>>

\* The selection block ends and an execute_job task is spawned for each due
\* job.
LkTickSelect(due) ==
  /\ lk.tick = "select_cs"
  /\ \A e \in due : lk.exec[e] = "idle"
  /\ lk' = [Release(lk, "select_cs") EXCEPT
             !.tick = "sleep",
             !.exec = [e \in ExecIds |-> IF e \in due THEN "mark_lock" ELSE lk.exec[e]]]
  /\ UNCHANGED <<tmvars, cronvars, storevars, clockvars>>

\* store.lock().await of execute_job, for the Running mark and for the
\* completion update.
LkExecAcquire(e) ==
  /\ lk.exec[e] \in {"mark_lock", "upd_lock"}
  /\ lk.store = Free
  /\ lk' = [lk EXCEPT !.store = ExecP(e),
                      !.exec[e] = IF lk.exec[e] = "mark_lock" THEN "mark_cs" ELSE "upd_cs"]
  /\ UNCHANGED <<tmvars, cronvars, storevars, clockvars>>

\* The block of the Running mark ends; the backend call is awaited.
LkExecMark(e) ==
  /\ lk.exec[e] = "mark_cs"
  /\ lk' = [Release(lk, "mark_cs") EXCEPT !.exec[e] = "backend"]
  /\ UNCHANGED <<tmvars, cronvars, storevars, clockvars>>

\* The backend call returns.
LkExecBackend(e) ==
  /\ lk.exec[e] = "backend"
  /\ lk' = [lk EXCEPT !.exec[e] = "upd_lock"]
  /\ UNCHANGED <<tmvars, cronvars, storevars, clockvars>>

\* The block of the completion update ends; result_sender is awaited when
\* the job has notify set.
LkExecUpdate(e, notify) ==
  /\ lk.exec[e] = "upd_cs"
  /\ lk' = [Release(lk, "upd_cs") EXCEPT !.exec[e] = IF notify THEN "deliver" ELSE "idle"]
  /\ UNCHANGED <<tmvars, cronvars, storevars, clockvars>>

\* result_sender returns.
LkExecDelivered(e) ==
  /\ lk.exec[e] = "deliver"
  /\ lk' = [lk EXCEPT !.exec[e] = "idle"]
  /\ UNCHANGED <<tmvars, cronvars, storevars, clockvars>>

\* process_message is called.
LkCallStart ==
  /\ lk.call = "idle"
  /\ lk' = [lk EXCEPT !.call = "push_lock"]
  /\ UNCHANGED <<tmvars, cronvars, storevars, clockvars>>

\* pending.lock().await and tasks.lock().await of process_message.
LkCallAcquire ==
  /\ \/ /\ lk.call = "push_lock" /\ lk.pending = Free
        /\ lk' = [lk EXCEPT !.pending = CallP, !.call = "push_cs"]
     \/ /\ lk.call = "tasks_lock" /\ lk.tasks = Free
        /\ lk' = [lk EXCEPT !.tasks = CallP, !.call = "tasks_cs"]
  /\ UNCHANGED <<tmvars, cronvars, storevars, clockvars>>

\* The block that pushes the message ends.
LkCallPush ==
  /\ lk.call = "push_cs"
  /\ lk' = [Release(lk, "push_cs") EXCEPT !.call = "tasks_lock"]
  /\ UNCHANGED <<tmvars, cronvars, storevars, clockvars>>

\* Under the tasks lock: the task in the map is aborted, task t is spawned,
\* its handle is put in the map, and process_message returns.
LkCallSpawn(t) ==
  /\ lk.call = "tasks_cs"
  /\ lk.task[t].pc = "idle"
  /\ lk' = [Release(lk, "tasks_cs") EXCEPT
             !.call = "idle",
             !.entry = t,
             !.task = [u \in LockTasks |->
                         IF u = t THEN [pc |-> "sleep", cancel |-> FALSE]
                         ELSE IF u = lk.entry THEN LockAbort(lk.task[u])
                         ELSE lk.task[u]]]
  /\ UNCHANGED <<tmvars, cronvars, storevars, clockvars>>

\* The debounce sleep elapses.
LkTaskWake(t) ==
  /\ lk.task[t].pc = "sleep"
  /\ lk' = [lk EXCEPT !.task[t].pc = "drain_lock"]
  /\ UNCHANGED <<tmvars, cronvars, storevars, clockvars>>

\* pending.lock().await and tasks.lock().await of the spawned task.
LkTaskAcquire(t) ==
  /\ \/ /\ lk.task[t].pc = "drain_lock" /\ lk.pending = Free
        /\ lk' = [lk EXCEPT !.pending = TaskP(t), !.task[t].pc = "drain_cs"]
     \/ /\ lk.task[t].pc = "cleanup_lock" /\ lk.tasks = Free
        /\ lk' = [lk EXCEPT !.tasks = TaskP(t), !.task[t].pc = "cleanup_cs"]
  /\ UNCHANGED <<tmvars, cronvars, storevars, clockvars>>

\* The block that takes the queue ends: the task returns on an empty batch
\* and awaits the handler otherwise.
LkTaskDrain(t, empty) ==
  /\ lk.task[t].pc = "drain_cs"
  /\ lk' = [Release(lk, "drain_cs") EXCEPT
             !.task[t] = IF empty THEN [pc |-> "idle", cancel |-> FALSE]
                         ELSE [lk.task[t] EXCEPT !.pc = "handler"]]
  /\ UNCHANGED <<tmvars, cronvars, storevars, clockvars>>

\* The handler returns.
LkTaskHandler(t) ==
  /\ lk.task[t].pc = "handler"
  /\ lk' = [lk EXCEPT !.task[t].pc = "cleanup_lock"]
  /\ UNCHANGED <<tmvars, cronvars, storevars, clockvars>>

\* The entry of the key is removed, the temporary guard is dropped and the
\* task ends.
LkTaskCleanup(t) ==
  /\ lk.task[t].pc = "cleanup_cs"
  /\ lk' = [Release(lk, "cleanup_cs") EXCEPT
             !.entry = 0,
             !.task[t] = [pc |-> "idle", cancel |-> FALSE]]
  /\ UNCHANGED <<tmvars, cronvars, storevars, clockvars>>

\* A task with the cancel flag is dropped at an await that suspends.
LkTaskKill(t) ==
  /\ lk.task[t].cancel
  /\ lk.task[t].pc \in {"handler", "cleanup_lock"}
  /\ lk' = [lk EXCEPT !.task[t] = [pc |-> "idle", cancel |-> FALSE]]
  /\ UNCHANGED <<tmvars, cronvars, storevars, clockvars>>

NextLock ==
  \/ LkTickWake
  \/ LkTickAcquire
  \/ LkTickReload
  \/ \E due \in SUBSET ExecIds : LkTickSelect(due)
  \/ \E e \in ExecIds : LkExecAcquire(e)
  \/ \E e \in ExecIds : LkExecMark(e)
  \/ \E e \in ExecIds : LkExecBackend(e)
  \/ \E e \in ExecIds, notify \in BOOLEAN : LkExecUpdate(e, notify)
  \/ \E e \in ExecIds : LkExecDelivered(e)
  \/ LkCallStart
  \/ LkCallAcquire
  \/ LkCallPush
  \/ \E t \in LockTasks : LkCallSpawn(t)
  \/ \E t \in LockTasks : LkTaskWake(t)
  \/ \E t \in LockTasks : LkTaskAcquire(t)
  \/ \E t \in LockTasks, empty \in BOOLEAN : LkTaskDrain(t, empty)
  \/ \E t \in LockTasks : LkTaskHandler(t)
  \/ \E t \in LockTasks : LkTaskCleanup(t)
  \/ \E t \in LockTasks : LkTaskKill(t)

LockSpec == Init /\ [][NextLock]_vars

\* The scheduler together with the /cron run command.
NextRun ==
  \/ NextCron
  \/ \E j \in JobIds, o \in Users : CmdRun(j, o)
  \/ \E e \in ExecIds, ok \in BOOLEAN : CmdRunFinish(e, ok)

RunSpec == Init /\ [][NextRun]_vars

\* ------------------------------------------------- CronStore operations
\* CronStore::remove with the ownership check left out.
StoreRemove_NoCheck(store, id, o) ==
  IF id \in DOMAIN store
    THEN [err |-> FALSE, store |-> Del(store, id), removed |-> Some(store[id])]
    ELSE [err |-> FALSE, store |-> store, removed |-> None]

\* CronStore::remove up to its save: the ownership check, then the removal.
StoreRemove(store, id, o) ==
  IF id \in DOMAIN store /\ store[id].owner # o
    THEN [err |-> TRUE, store |-> store, removed |-> None]
    ELSE IF id \in DOMAIN store
      THEN [err |-> FALSE, store |-> Del(store, id), removed |-> Some(store[id])]
      ELSE [err |-> FALSE, store |-> store, removed |-> None]

\* What an operation returned: Ok or Err, the reason of an error, the value.
Ret(op, id, o, res, why, val) ==
  [op |-> op, id |-> id, caller |-> o, res |-> res, why |-> why, val |-> val]

\* CronJob::new and CronStore::add on the instance: the job is inserted under
\* a fresh id, then save() either fails before it writes, or opens cron.json,
\* which cuts the file to length 0 before the new text is written.
StAdd(id, s, o, opened) ==
  /\ call = NoCall
  /\ id \in StoreIds \ DOMAIN addres
  /\ st' = Put(st, id, NewJob(s, o, now))
  /\ IF opened
       THEN /\ file' = TornFile
            /\ call' = [op |-> "add", id |-> id, caller |-> o, prev |-> file]
            /\ addres' = Put(addres, id, "pending")
            /\ ret' = ret
       ELSE /\ ret' = Ret("add", id, o, "Err", "save", None)
            /\ addres' = Put(addres, id, "err")
            /\ UNCHANGED <<file, call>>
  /\ UNCHANGED <<tmvars, cronvars, clockvars, lockvars>>

\* CronStore::remove on the instance: an error for another owner's job, None
\* for an unknown id without a save, else the removal and the save.
StRemove(id, o, opened) ==
  /\ call = NoCall
  /\ LET r == StoreRemove(st, id, o)
     IN /\ st' = r.store
        /\ IF r.err
             THEN /\ ret' = Ret("remove", id, o, "Err", "not owner", None)
                  /\ UNCHANGED <<file, call>>
             ELSE IF r.removed = None
               THEN /\ ret' = Ret("remove", id, o, "Ok", "", None)
                    /\ UNCHANGED <<file, call>>
               ELSE IF opened
                 THEN /\ file' = TornFile
                      /\ call' = [op |-> "remove", id |-> id, caller |-> o, prev |-> file]
                      /\ ret' = ret
                 ELSE /\ ret' = Ret("remove", id, o, "Err", "save", None)
                      /\ UNCHANGED <<file, call>>
  /\ UNCHANGED <<addres, tmvars, cronvars, clockvars, lockvars>>

\* std::fs::write after the open: the whole text is written and the call
\* returns Ok, or the write fails, the file stays cut short and the call
\* returns the error.
SaveDone(ok) ==
  /\ call # NoCall
  /\ file' = IF ok THEN FileOf(st) ELSE TornFile
  /\ ret' = Ret(call.op, call.id, call.caller,
                IF ok THEN "Ok" ELSE "Err", IF ok THEN "" ELSE "save",
                IF call.op = "add" THEN Some(call.id) ELSE None)
  /\ addres' = IF call.op = "add"
                 THEN Put(addres, call.id, IF ok THEN "ok" ELSE "err")
                 ELSE addres
  /\ call' = NoCall
  /\ UNCHANGED <<st, tmvars, cronvars, clockvars, lockvars>>

\* CronStore::load into a fresh instance by another task or process (the
\* tick's reload, a /cron command, the agent), at any time.
StLoad ==
  /\ LET r == StoreLoad(file)
     IN ret' = [op |-> "load", id |-> <<>>, caller |-> "",
                res |-> IF r.ok THEN "Ok" ELSE "Err",
                why |-> IF r.ok THEN "" ELSE "parse",
                val |-> r.store,
                after |-> IF call # NoCall THEN "saving" ELSE ret.op,
                added |-> IF call = NoCall /\ ret.op = "add" /\ ret.res = "Ok"
                            THEN ret.val ELSE None]
  /\ UNCHANGED <<st, file, call, addres, tmvars, cronvars, clockvars, lockvars>>

NextStore ==
  \/ \E id \in StoreIds, s \in Schedules, o \in Users, opened \in BOOLEAN :
        StAdd(id, s, o, opened)
  \/ \E id \in StoreIds, o \in Users, opened \in BOOLEAN : StRemove(id, o, opened)
  \/ \E ok \in BOOLEAN : SaveDone(ok)
  \/ StLoad

StoreSpec == Init /\ [][NextStore]_vars

\* ------------------------------------------------- CronStore queries
\* The jobs a store can hold as far as the lookups read them: any owner,
\* enabled or not, with or without a next run time.
QueryJobs ==
  {[NewJob(Every(Interval), o, 0) EXCEPT !.enabled = b, !.next = n] :
     o \in Users, b \in BOOLEAN, n \in {None} \cup {Some(t) : t \in 0..MaxTime}}

QueryStores == UNION {[D -> QueryJobs] : D \in SUBSET StoreIds}

\* A store loaded from a cron.json holding any of these job tables.
InitQueryStore ==
  /\ file \in {FileOf(x) : x \in QueryStores}
  /\ st = StoreLoad(file).store
  /\ call = NoCall
  /\ ret = NoRet
  /\ addres = EmptyStore

\* CronStore::get_due_jobs(t)
QGetDue(t) ==
  /\ ret' = Ret("get_due_jobs", <<>>, "", "Ok", "", [t |-> t, jobs |-> DueJobs(st, t)])
  /\ UNCHANGED <<st, file, call, addres, tmvars, cronvars, clockvars, lockvars>>

\* CronStore::get(id, channel, user_id)
QGet(id, o) ==
  /\ ret' = Ret("get", id, o, "Ok", "", StoreGet(st, id, o))
  /\ UNCHANGED <<st, file, call, addres, tmvars, cronvars, clockvars, lockvars>>

\* find_job_id(store, channel, user_id, id_or_prefix)
QFind(p, o) ==
  /\ ret' = Ret("find", p, o, "Ok", "", FindJobId(st, o, p))
  /\ UNCHANGED <<st, file, call, addres, tmvars, cronvars, clockvars, lockvars>>

NextQuery ==
  \/ \E t \in 0..MaxTime : QGetDue(t)
  \/ \E id \in StoreIds, o \in Users : QGet(id, o)
  \/ \E p \in Prefixes, o \in Users : QFind(p, o)

InitQuery == InitTM /\ InitCron /\ InitQueryStore /\ InitClock /\ InitLock

QuerySpec == InitQuery /\ [][NextQuery]_vars

TaskSpec == Init /\ [][NextTM]_vars

\* A step of a started call or of a spawned task.
Progress ==
  \/ \E u \in Users : SpawnStep(u)
  \/ \E t \in TaskIds : Wake(t) \/ Drain(t) \/ HandlerFinish(t) \/ Cleanup(t)

\* The task manager with one sender. The maps are keyed by user key and no
\* step for one key reads or writes another key's queue, entry or tasks, so
\* what happens to one user's messages is decided by that user's steps.
NextOneUser ==
  \/ Push("u1")
  \/ \E u \in Users : SpawnStep(u)
  \/ \E t \in TaskIds : Wake(t)
  \/ \E t \in TaskIds : Drain(t)
  \/ \E t \in TaskIds : HandlerFinish(t)
  \/ \E t \in TaskIds : Cleanup(t)
  \/ \E t \in TaskIds : Kill(t)

\* The runtime does not stop while a started call or a spawned task can take
\* a step; messages may stop arriving and an abort may or may not catch a task.
TaskFairSpec == Init /\ [][NextOneUser]_vars /\ WF_vars(Progress)

\* ------------------------------------------------- claims: task manager
Invoked(t) == task[t].pc # "none" /\ task[t].batch # <<>>

\* A handler invocation in progress. An invocation whose task has been asked
\* to abort is counted as over from the abort call on (the reading most
\* favourable to the claim).
InProgress(t) == task[t].pc = "handler" /\ ~task[t].cancel

Quiescent(u) == calls[u] = 0 /\ \A t \in TasksOf(u) : task[t].pc \in {"done", "aborted"}

\* C1: at no time are two handler invocations for the same user key both in
\* progress (started, not finished, not aborted).
C1_NoConcurrentHandlers == \A s, t \in TaskIds :
  (s # t /\ task[s].user = task[t].user) => ~(InProgress(s) /\ InProgress(t))

\* C4: once messages have stopped for a user and every call and task has ended,
\* the last message passed to process_message is in the batch of a handler
\* invocation that ran to completion.
C4_LatestProcessed == \A u \in Users :
  (Quiescent(u) /\ arrived[u] # <<>>) =>
     \E t \in TasksOf(u) : task[t].finished
                           /\ arrived[u][Len(arrived[u])] \in SeqSet(task[t].batch)

\* C5: when every message of a user is passed to process_message before any
\* debounce sleep for that user has ended, at most one handler invocation
\* occurs, its batch is exactly the messages in arrival order, and once every
\* call and task has ended there is exactly one.
C5_OneBatchInOrder == \A u \in Users :
  ~late[u] =>
     LET inv == {t \in TasksOf(u) : Invoked(t)}
     IN /\ Cardinality(inv) <= 1
        /\ \A t \in inv : task[t].batch = arrived[u]
        /\ (Quiescent(u) /\ arrived[u] # <<>>) => Cardinality(inv) = 1

C5_Witness == \E u \in Users :
  /\ ~late[u]
  /\ Len(arrived[u]) = 3
  /\ \E t \in TasksOf(u) : task[t].finished /\ task[t].batch = arrived[u]

\* C6: a process_message step for user a leaves the queue, the map entry and
\* the tasks of every other user b as they are, and every batch holds only
\* messages of the task's own user.
C6_OtherUsersUntouched ==
  /\ [][\A a \in Users : calls'[a] # calls[a] =>
          \A b \in Users \ {a} :
             /\ pending'[b] = pending[b]
             /\ tasks'[b] = tasks[b]
             /\ \A t \in TasksOf(b) : task'[t] = task[t]]_vars
  /\ [](\A t \in TaskIds : Invoked(t) =>
          SeqSet(task[t].batch) \subseteq SeqSet(arrived[task[t].user]))

C6_Witness == \E s, t \in TaskIds :
  /\ task[s].user = "u1" /\ task[t].user = "u2"
  /\ task[s].finished /\ task[t].finished
  /\ ~task[s].cancel /\ ~task[t].cancel
  /\ task[s].batch = arrived["u1"] /\ task[t].batch = arrived["u2"]

\* C7: a message pushed after a task of its user has drained the queue is
\* eventually in the batch passed to a handler invocation.
C7_LateMessageDelivered == \A m \in MsgIds :
  (m \in postDrain) ~> (\E t \in TaskIds : Invoked(t) /\ m \in SeqSet(task[t].batch))

C7_Witness == \E m \in postDrain : \E t \in TaskIds :
  Invoked(t) /\ m \in SeqSet(task[t].batch)

\* C8: each message is in the batch of at most one handler invocation, and
\* at most once in it.
C8_NoDoubleProcessing ==
  /\ \A s, t \in TaskIds :
        s # t => SeqSet(task[s].batch) \cap SeqSet(task[t].batch) = {}
  /\ \A t \in TaskIds :
        Cardinality(SeqSet(task[t].batch)) = Len(task[t].batch)

C8_Witness == \E s, t \in TaskIds :
  /\ s < t /\ task[s].user = task[t].user
  /\ Invoked(s) /\ task[s].pc = "aborted"
  /\ Invoked(t)

\* ------------------------------------------------------ claims: cron
\* An execution between its start (the job marked Running) and the store of
\* its completion update.
Executing(e) == execs[e].pc = "run"

\* C2: for a single job, executions never overlap: while one execution of a
\* job is between its start and the store of its completion update, no second
\* execution of that job is.
C2_NoOverlappingExecutions == \A e, f \in ExecIds :
  (e # f /\ execs[e].job = execs[f].job) => ~(Executing(e) /\ Executing(f))

\* C3: a job selected by one tick is not selected again by a later tick while
\* the execution spawned for it has not completed.
C3_NoReselection == \A e, f \in ExecIds :
  (e # f /\ execs[e].job = execs[f].job
         /\ execs[e].origin = "tick" /\ execs[f].origin = "tick")
    => ~(InFlight(e) /\ InFlight(f))

\* C9: the step that completes an execution of an At job leaves the stored
\* job disabled, whether the execution succeeded or failed.
C9_AtDisabledAfterRun ==
  [][\A e \in ExecIds :
       (execs[e].pc = "run" /\ execs'[e].pc = "done"
          /\ execs[e].job \in DOMAIN mem'
          /\ mem'[execs[e].job].sched.kind = "At")
       => ~mem'[execs[e].job].enabled]_vars

\* C10: an At job with a completed execution (failed ones and ones started by
\* run_now included) is not due in the scheduler's store, and the tick loop
\* starts no execution of it.
C10_AtNeverAgain == \A j \in JobIds :
  (HasCompleted(j) /\ j \in DOMAIN mem /\ mem[j].sched.kind = "At") =>
     /\ ~IsDue(mem[j], now)
     /\ \A e \in ExecIds :
          ~(execs[e].job = j /\ execs[e].origin = "tick" /\ execs[e].rerun)

\* C11: every stored job that is disabled has next_run_at = None, in the
\* scheduler's store and in the persisted one.
C11_DisabledHasNoNextRun ==
  /\ \A j \in DOMAIN mem : ~mem[j].enabled => mem[j].next = None
  /\ \A j \in DOMAIN disk : ~disk[j].enabled => disk[j].next = None

\* C12: the step that completes an execution of an Every(n) job at time e
\* leaves the stored job with next_run_at = e + n, last_run_at = e and
\* last_status = Success or Failed according to the backend result.
C12_EveryNextFromCompletion ==
  [][\A e \in ExecIds :
       (execs[e].pc = "run" /\ execs'[e].pc = "done"
          /\ execs[e].job \in DOMAIN mem'
          /\ mem'[execs[e].job].sched.kind = "Every")
       => LET job == mem'[execs[e].job]
          IN /\ job.next = Some(now + job.sched.v)
             /\ job.last_run = Some(now)
             /\ job.status = (IF execs'[e].ok THEN "Success" ELSE "Failed")]_vars

\* An Every job, due one interval after its creation, whose execution took
\* time and completed later than the due time.
C12_Witness == \E j \in DOMAIN mem :
  /\ mem[j].sched.kind = "Every"
  /\ mem[j].status = "Success"
  /\ mem[j].dur # None /\ mem[j].dur[1] > 0
  /\ mem[j].last_run = Some(MaxTime)
  /\ mem[j].next = Some(MaxTime + mem[j].sched.v)
  /\ \E e \in ExecIds : execs[e].pc = "done" /\ execs[e].job = j /\ execs[e].origin = "tick"

\* C20: after stop() is called the tick loop exits and spawns no further
\* executions, and the executions in flight are not cancelled: they still
\* store and persist their completion state. Stated here: no execution is
\* ever dropped between its start and its completion update.
C20_InFlightNotCancelled == \A e \in ExecIds : execs[e].pc # "cancelled"

\* ------------------------------------------------- claims: store lookups
\* C13: get_due_jobs(t) returns exactly the stored jobs that are enabled and
\* have next_run_at = Some(x) with x <= t; it returns no disabled job and no
\* job whose next_run_at is None.
C13_DueJobsExact ==
  ret.op = "get_due_jobs" =>
     /\ ret.val.jobs = {j \in DOMAIN st :
                          st[j].enabled /\ \E x \in 0..ret.val.t : st[j].next = Some(x)}
     /\ \A j \in ret.val.jobs : st[j].enabled /\ st[j].next # None

\* A call that returned one job and left out a disabled job whose time has
\* come, a job without a next run time and nothing else.
C13_Witness ==
  /\ ret.op = "get_due_jobs"
  /\ Cardinality(ret.val.jobs) = 1
  /\ \E j \in DOMAIN st : ~st[j].enabled /\ st[j].next # None /\ st[j].next[1] <= ret.val.t
  /\ \E j \in DOMAIN st : st[j].enabled /\ st[j].next = None

\* The stores that differ from `store` in one job that is not the caller's,
\* before and after: such a job taken out, put in, or replaced.
OtherUsersEdits(store, o) ==
  {Del(store, j) : j \in {k \in DOMAIN store : store[k].owner # o}}
    \cup {Put(store, j, job) :
            j \in {k \in StoreIds : ~Owned(store, k, o)},
            job \in {x \in QueryJobs : x.owner # o}}

\* C15: get(id, channel, user_id) gives the caller the same result in two
\* stores that differ only in jobs owned by other users; for an id that does
\* not exist and for an id of another owner's job the result is None.
C15_GetHidesOtherUsers ==
  ret.op = "get" =>
     /\ \A other \in OtherUsersEdits(st, ret.caller) :
           StoreGet(other, ret.id, ret.caller) = ret.val
     /\ (~Owned(st, ret.id, ret.caller)) => ret.val = None

\* A lookup of another owner's job that exists.
C15_Witness ==
  /\ ret.op = "get"
  /\ ret.id \in DOMAIN st
  /\ st[ret.id].owner # ret.caller
  /\ ret.val = None

\* C19: resolving an id or prefix for a caller succeeds exactly when the text
\* is the id of one of the caller's jobs or a prefix of exactly one of the
\* caller's jobs, and then returns that job's id; a prefix of none or of more
\* than one of the caller's jobs is an error, and the id of another user's
\* job is never returned.
C19_FindJobIdUnambiguous ==
  ret.op = "find" =>
     LET mine == ListForUser(st, ret.caller)
         m == {j \in mine : StartsWith(j, ret.id)}
         r == ret.val
     IN /\ r.ok <=> (ret.id \in mine \/ Cardinality(m) = 1)
        /\ r.ok => r.id \in mine /\ (r.id = ret.id \/ m = {r.id})
        /\ (~r.ok) => (r.why = "not found" <=> m = {})
                      /\ (r.why = "ambiguous" <=> Cardinality(m) > 1)

\* A prefix that two stored jobs start with, one of them the caller's: the
\* caller's job is returned.
C19_Witness ==
  /\ ret.op = "find"
  /\ ret.val.ok
  /\ ret.val.id # ret.id
  /\ \E j \in DOMAIN st :
        j # ret.val.id /\ StartsWith(j, ret.id) /\ st[j].owner # ret.caller

\* ------------------------------------------------- claims: store changes
\* The step in which remove(id, channel, user_id) is called on the instance.
RemoveCalled(id, o) ==
  /\ call = NoCall
  /\ \/ call' # NoCall /\ call'.op = "remove" /\ call'.id = id /\ call'.caller = o
     \/ /\ call' = NoCall /\ ret' # ret
        /\ ret'.op = "remove" /\ ret'.id = id /\ ret'.caller = o

\* C14: remove on a job of a different owner returns an ownership error and
\* leaves the in-memory store and the file as they were; on an id that does
\* not exist it returns None without error and without writing.
C14_RemoveRejectsNonOwner ==
  [][\A id \in StoreIds, o \in Users :
       RemoveCalled(id, o) =>
         /\ (id \in DOMAIN st /\ st[id].owner # o) =>
               /\ call' = NoCall /\ st' = st /\ file' = file
               /\ ret'.res = "Err" /\ ret'.why = "not owner"
         /\ (id \notin DOMAIN st) =>
               /\ call' = NoCall /\ st' = st /\ file' = file
               /\ ret'.res = "Ok" /\ ret'.val = None]_vars

\* An ownership error for a job that is stored and persisted.
C14_Witness ==
  /\ ret.op = "remove" /\ ret.res = "Err" /\ ret.why = "not owner"
  /\ ret.id \in DOMAIN st /\ st[ret.id].owner # ret.caller
  /\ file.kind = "json" /\ ret.id \in DOMAIN file.jobs

\* C16: a mutating store operation that returns an error has committed
\* nothing: after a failed add the in-memory store does not hold the job,
\* after a failed remove it still holds it, and no later save persists a job
\* whose add failed.
C16_FailedSaveCommitsNothing ==
  /\ (ret.op = "add" /\ ret.res = "Err") => ret.id \notin DOMAIN st
  /\ (ret.op = "remove" /\ ret.res = "Err" /\ ret.why = "save") => ret.id \in DOMAIN st
  /\ \A id \in DOMAIN addres :
        addres[id] = "err" => ~(file.kind = "json" /\ id \in DOMAIN file.jobs)

\* C17: a load that runs while a save is writing returns the whole previous
\* snapshot or the whole new one.
C17_LoadSeesWholeSnapshot ==
  [][(call # NoCall /\ ret' # ret /\ ret'.op = "load") =>
       /\ ret'.res = "Ok"
       /\ ret'.val \in {StoreLoad(call.prev).store, st}]_vars

\* C18: after add returned Ok with an id, a load into a fresh store succeeds
\* and the loaded store holds, under that id, a job equal to the one added.
C18_AddThenLoad ==
  [][(call = NoCall /\ ret.op = "add" /\ ret.res = "Ok" /\ ret'.op = "load") =>
       /\ ret.val # None
       /\ ret'.res = "Ok"
       /\ ret.val[1] \in DOMAIN ret'.val
       /\ ret'.val[ret.val[1]] = st[ret.val[1]]]_vars

\* A load right after a successful add to a store that held a job already.
C18_Witness ==
  /\ ret.op = "load" /\ ret.added # None /\ ret.res = "Ok"
  /\ Cardinality(DOMAIN ret.val) = 2
  /\ \E id \in DOMAIN ret.val : ret.val[id].sched.kind = "At"

\* C21: every execution that execute_job has completed made exactly one
\* delivery attempt, addressed to the job's owner, when the job it was started
\* with has notify set, and none when it has not; the step in which the
\* delivery succeeds or fails leaves the job table in memory and on disk as
\* the execution left it.
C21_NotifyDelivery ==
  [][/\ \A e \in ExecIds :
          execs'[e].pc = "done" =>
            IF execs'[e].notify
              THEN /\ execs'[e].attempts = 1
                   /\ execs'[e].to \in Users
                   /\ execs'[e].job \in DOMAIN mem' =>
                        execs'[e].to = mem'[execs'[e].job].owner
                   /\ execs'[e].dres \in {"pending", "ok", "failed"}
              ELSE execs'[e].attempts = 0 /\ execs'[e].dres = "none"
     /\ \A e \in ExecIds :
          (execs[e].dres = "pending" /\ execs'[e].dres \in {"ok", "failed"}) =>
            (mem' = mem /\ disk' = disk)]_vars

\* One execution's delivery has failed and another execution, of the job with
\* notify cleared, has completed.
C21_Witness ==
  \E e, f \in ExecIds :
    /\ execs[e].pc = "done" /\ execs[e].notify /\ execs[e].dres = "failed"
    /\ execs[f].pc = "done" /\ ~execs[f].notify

\* C22: an execution started on demand, by run_now or by the /cron run
\* command, leaves the stored job Running with next_run_at cleared when it
\* starts, and with last_run_at at the completion time and the status of the
\* result when it completes.
C22_OnDemandSameTransitions ==
  [][\A e \in ExecIds :
       (execs'[e].origin \in {"run_now", "cmd"} /\ execs'[e].job \in DOMAIN disk') =>
         /\ (execs[e].pc \notin {"run", "cmdrun"} /\ execs'[e].pc \in {"run", "cmdrun"}) =>
              /\ disk'[execs'[e].job].status = "Running"
              /\ disk'[execs'[e].job].next = None
         /\ (execs[e].pc \in {"run", "cmdrun"} /\ execs'[e].pc \in {"done", "cmddone"}) =>
              /\ disk'[execs'[e].job].last_run = Some(now)
              /\ disk'[execs'[e].job].status = (IF execs'[e].ok THEN "Success" ELSE "Failed")]_vars

\* C23: the completion of a failed execution of an Every or Cron job stores
\* the status Failed, leaves enabled as it was, stores a next_run_at, saves
\* the job, and leaves the tick loop where it was.
C23_FailureKeepsJobScheduled ==
  [][\A e \in ExecIds :
       (/\ execs[e].pc = "run" /\ execs'[e].pc = "done" /\ ~execs'[e].ok
        /\ execs[e].job \in DOMAIN mem
        /\ mem[execs[e].job].sched.kind \in {"Every", "Cron"}) =>
         /\ execs[e].job \in DOMAIN mem'
         /\ mem'[execs[e].job].status = "Failed"
         /\ mem'[execs[e].job].enabled = mem[execs[e].job].enabled
         /\ mem'[execs[e].job].next # None
         /\ disk' = mem'
         /\ tickpc' = tickpc
         /\ stop' = stop]_vars

\* An Every or Cron job whose execution failed has been selected by a later
\* tick and is executing again.
C23_Witness ==
  \E e, f \in ExecIds :
    /\ execs[e].pc = "done" /\ ~execs[e].ok
    /\ execs[f].job = execs[e].job /\ execs[f].origin = "tick" /\ execs[f].rerun
    /\ execs[f].pc = "run"
    /\ execs[f].job \in DOMAIN mem
    /\ mem[execs[f].job].sched.kind \in {"Every", "Cron"}
    /\ mem[execs[f].job].fails = 1

\* C24: the persisted failure_count of a job changes only in the step that
\* completes an execution of the job, to 0 when the execution succeeded and
\* to one more than before when it failed.
C24_FailureCountOnlyByExecution ==
  [][\A j \in DOMAIN disk \cap DOMAIN disk' :
       disk'[j].fails # disk[j].fails =>
         \E e \in ExecIds :
           /\ execs[e].job = j /\ execs[e].pc = "run" /\ execs'[e].pc = "done"
           /\ disk'[j].fails = IF execs'[e].ok THEN 0 ELSE disk[j].fails + 1]_vars

\* C30: FakeClock values cloned from one another read the same time; after
\* advance_ms or set on one of them every one of them reads the new value;
\* sleep returns with the time of every FakeClock as it was.
C30_ClonesShareTime ==
  [][/\ \A h, g \in Handles(fclock') :
          fclock'.hs[h].root = fclock'.hs[g].root =>
            NowMillis(fclock', h) = NowMillis(fclock', g)
     /\ \A h, g \in Handles(fclock) :
          fclock.hs[h].root = fclock.hs[g].root =>
            /\ \A d \in Times :
                 FcAdvance(h, d) =>
                   NowMillis(fclock', g) = (NowMillis(fclock, h) + d) % Modulus
            /\ \A t \in Times : FcSet(h, t) => NowMillis(fclock', g) = t
     /\ \A h \in Handles(fclock) : FcSleep(h) => fclock' = fclock]_vars

\* A clone of a clone reads a time that advance_ms on the first FakeClock and
\* set on its clone have changed.
C30_Witness ==
  /\ Len(fclock.hs) = 3
  /\ fclock.hs[3].root = 1
  /\ fclock.hs[2].root = 1
  /\ fclock.cells[1] = 1
  /\ ret.op = "now_millis" /\ ret.h = 3 /\ ret.val = 1

\* C25: next_run_after of an At(ts) schedule is Some(ts) for a reference time
\* before ts and None for a reference time at or after ts.
C25_AtNextRun ==
  (ret.op = "next_run_after" /\ ret.sched.kind = "At") =>
    /\ ~ret.out.panic
    /\ ret.out.val = IF ret.after < ret.sched.v THEN Some(ret.sched.v) ELSE None

\* next_run_after was asked at the timestamp of an At schedule itself.
C25_Witness ==
  /\ ret.op = "next_run_after" /\ ret.sched = At(MaxTime) /\ ret.after = MaxTime
  /\ ret.out.val = None

\* C26: next_run_after of an Every(n) schedule at t is Some(t + n), and
\* next_run_after at that result is Some(t + 2n); it never is None.
C26_EveryNextRun ==
  (ret.op = "next_run_after" /\ ret.sched.kind = "Every") =>
    /\ ~ret.out.panic
    /\ ret.out.val = Some(ret.after + ret.sched.v)
    /\ ~ret.again.panic
    /\ ret.again.val = Some(ret.after + 2 * ret.sched.v)

\* C27: an Every(ms) schedule whose ms is a positive whole number of seconds,
\* minutes, hours or days is what parse gives for its description.
C27_DescriptionParsesBack ==
  (/\ ret.op = "roundtrip"
   /\ ret.ms > 0
   /\ \E u \in {SecondMs, MinuteMs, HourMs, DayMs} : ret.ms % u = 0) =>
    ret.back = Ok(Every(ret.ms))

\* Every(3600000) was rendered as "every 1h" and parsed back.
C27_Witness ==
  /\ ret.op = "roundtrip" /\ ret.ms = HourMs
  /\ ret.text = <<Tok("every"), NumTok(1, "h")>>
  /\ ret.back = Ok(Every(HourMs))

\* C28: an add command whose text does not parse answers with the error and
\* leaves the job table in memory and on disk, and the ids given out, as they
\* were.
C28_BadScheduleAddsNothing ==
  [][\A raw \in AddTexts \ {<<>>}, o \in Users :
       (~ParseAddCommand(raw).ok /\ CmdAddText(raw, o)) =>
         /\ ret'.res = "Error"
         /\ disk' = disk
         /\ mem' = mem
         /\ created' = created]_vars

\* An add command has answered with an error while the job table on disk and
\* in memory held a job.
C28_Witness ==
  /\ ret.op = "add" /\ ret.res = "Error"
  /\ DOMAIN disk # {} /\ DOMAIN mem # {}

\* C29: what parse_add_command returns for a text is the schedule read from
\* the first 2 parts of the trimmed text when it starts with "every ", from
\* the first 3 when it starts with "at ", and otherwise from the first 5, with
\* all the rest of the text as the prompt; a text that ends with its schedule
\* is an error.
C29_SplitsScheduleAndPrompt ==
  ret.op = "parse_add_command" =>
    LET input == Trim(ret.input)
        k == IF StartsWithWord(input, "every") THEN 2
             ELSE IF StartsWithWord(input, "at") THEN 3 ELSE 5
    IN /\ ret.res.ok =>
            /\ Len(input) > k
            /\ ret.res.val.schedule = ParseSchedule(SubSeq(input, 1, k)).val
            /\ ParseSchedule(SubSeq(input, 1, k)).ok
            /\ ret.res.val.schedule.kind =
                 (IF k = 2 THEN "Every" ELSE IF k = 3 THEN "At" ELSE "Cron")
            /\ ret.res.val.prompt = SubSeq(input, k + 1, Len(input))
            /\ SubSeq(input, 1, k) \o ret.res.val.prompt = input
       /\ Len(input) <= k => ~ret.res.ok
       /\ (Len(input) > k /\ ParseSchedule(SubSeq(input, 1, k)).ok) => ret.res.ok

\* A cron expression followed by a prompt of several words, one of them after
\* two spaces, was split.
C29_Witness ==
  /\ ret.op = "parse_add_command"
  /\ ret.res.ok
  /\ ret.res.val.schedule.kind = "Cron"
  /\ ret.res.val.prompt = <<Tok("say"), Tok(""), Tok("hi")>>

\* C31: a stored job whose last_status is Running has no next_run_at, in the
\* CronService store and in cron.json.
C31_RunningHasNoNextRun ==
  /\ \A j \in DOMAIN mem : mem[j].status = "Running" => mem[j].next = None
  /\ \A j \in DOMAIN disk : disk[j].status = "Running" => disk[j].next = None

\* C32: once the program runs again after it stopped during an execution of
\* an enabled Every or Cron job, which cron.json holds as Running, the job
\* eventually has a next_run_at in the store again.
C32_RunningJobRecovered ==
  \A j \in JobIds :
    (/\ stop = "no" /\ tickpc # "exited"
     /\ \E e \in ExecIds : execs[e].pc = "cancelled" /\ execs[e].job = j
     /\ j \in DOMAIN disk
     /\ disk[j].status = "Running"
     /\ disk[j].enabled
     /\ disk[j].sched.kind \in {"Every", "Cron"})
      ~> (j \in DOMAIN mem /\ mem[j].next # None)

\* C33: an execute_job task that awaits the backend or the result delivery
\* holds none of the locks, and a debounce task that sleeps or awaits its
\* handler holds none of them.
C33_NoLockAcrossAwait ==
  /\ \A e \in ExecIds :
       lk.exec[e] \in ExecAwaits =>
         \A l \in {lk.store, lk.pending, lk.tasks} : l # ExecP(e)
  /\ \A t \in LockTasks :
       lk.task[t].pc \in TaskAwaits =>
         \A l \in {lk.store, lk.pending, lk.tasks} : l # TaskP(t)

\* An execution awaits the backend while the tick loop holds the store lock,
\* and a handler runs while process_message holds the tasks lock.
C33_Witness ==
  /\ lk.exec[1] = "backend" /\ lk.store = TickP
  /\ \E t \in LockTasks : lk.task[t].pc = "handler"
  /\ lk.tasks = CallP

\* C34: a debounce task that has ended on its own (its handler finished, or
\* its batch was empty) is not the task the map holds for its user key.
C34_FinishedTaskLeavesMap == \A t \in TaskIds :
  task[t].pc = "done" => tasks[task[t].user] # Some(t)

\* C35: the batch a task takes holds its messages in arrival order, and every
\* message of a batch taken earlier by a task of the same user arrived before
\* every message of it.
C35_BatchesKeepArrivalOrder ==
  [][\A t \in TaskIds :
       (task[t].batch = <<>> /\ task'[t].batch # <<>>) =>
          LET b == task'[t].batch
          IN /\ \A i, j \in 1..Len(b) : i < j => b[i] < b[j]
             /\ \A s \in TasksOf(task'[t].user) \ {t} :
                  \A m \in SeqSet(task[s].batch) : \A n \in SeqSet(b) : m < n]_vars

\* Two tasks of one user have taken a batch, one of them with two messages.
C35_Witness == \E s, t \in TaskIds :
  /\ s # t /\ task[s].user = task[t].user
  /\ Len(task[s].batch) = 2
  /\ task[t].batch # <<>>

\* A spawned task that has neither ended nor been aborted.
LiveTasks(u) == {t \in TasksOf(u) : task[t].pc \notin {"done", "aborted"} /\ ~task[t].cancel}

\* C36: every task of a user key that has neither ended nor been aborted is
\* the task whose handle the map holds for that key (so there is at most
\* one).
C36_LiveTaskIsMapped == \A u \in Users :
  \A t \in LiveTasks(u) : tasks[u] = Some(t)

\* C37: a job that is in the persisted snapshot leaves it only by the remove
\* command of its owner.
C37_AddedJobStays ==
  [][\A j \in JobIds :
       (j \in DOMAIN disk /\ j \notin DOMAIN disk') => CmdRemove(j, disk[j].owner)]_vars

\* C38: a job that was created and is no longer in the persisted snapshot
\* (its owner removed it) does not come back into the snapshot.
C38_RemovedJobStaysOut ==
  [][\A j \in JobIds :
       (j <= created /\ j \notin DOMAIN disk) => j \notin DOMAIN disk']_vars

\* A step that ends an operation issued by user a: the save of a pause or
\* resume command, a toggle, a remove.
OperationBy(a) ==
  \/ cmd # NoCmd /\ cmd.by = a /\ CmdCommit
  \/ \E j \in AllJobs : Toggle(j, a)
  \/ \E j \in AllJobs : CmdRemove(j, a)

\* The jobs of `store` that user a does not own.
JobsOfOthers(store, a) == {k \in DOMAIN store : store[k].owner # a}

\* C39: an operation issued by user a leaves every job of another owner as
\* it was, in the persisted snapshot and in the in-memory store.
C39_OtherOwnersJobsUntouched ==
  [][\A a \in Users :
       OperationBy(a) =>
         /\ \A k \in JobsOfOthers(disk, a) : k \in DOMAIN disk' /\ disk'[k] = disk[k]
         /\ \A k \in JobsOfOthers(mem, a) : k \in DOMAIN mem' /\ mem'[k] = mem[k]]_vars

\* C40: when an execution of an enabled Every job stores its completion, the
\* stored next_run_at is later than the completion time.
C40_NextRunAfterCompletion ==
  [][\A e \in ExecIds :
       (execs[e].pc = "run" /\ execs'[e].pc = "done") =>
          LET j == execs[e].job
          IN (j \in DOMAIN mem' /\ mem'[j].sched.kind = "Every" /\ mem'[j].enabled) =>
                mem'[j].next # None /\ mem'[j].next[1] > now]_vars


=============================================================================
